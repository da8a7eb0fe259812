------------------------- MODULE OpenFileCacheProofs -------------------------
(***************************************************************************)
(* Proofs about the open file cache, for any number of requests, names,    *)
(* entries and descriptors.                                                *)
(*                                                                         *)
(* CacheOK says that a cache is in order for given holders of its entries  *)
(* (h[i] requests hold entry i) and given descriptors w that requests own  *)
(* themselves.  The operators of the source are shown to take caches in    *)
(* order to caches in order, whatever the environment chooses; the         *)
(* inductive invariant adds what each request knows of the entry it holds. *)
(***************************************************************************)
EXTENDS OpenFileCache, FiniteSetTheorems, SequenceTheorems, WellFoundedInduction, TLAPS

-----------------------------------------------------------------------------
(* Caches in order *)

NoRepeat(q) == \A j, k \in DOMAIN q : q[j] = q[k] => j = k

QueueOK(d) == NoRepeat(d.expire_queue) /\ ToSet(d.expire_queue) = d.rbtree

\* What is known of entry i when h requests hold it.
EntryOK(d, i, h) ==
    LET f == d.file[i]
    IN /\ f.count = h
       /\ h > 0 => f.live /\ ~f.is_dir /\ ~f.err /\ f.fd # INVALID
       /\ f.live /\ i \notin d.rbtree => f.close /\ h > 0
       /\ ~f.live => f = NoFile
       /\ i \in d.rbtree => f.live /\ ~f.close
       /\ f.err \/ f.is_dir => f.fd = INVALID
       /\ ~f.special

\* The open descriptors are those of entries and those of w, each of one of them.
HandlesOK(d, w) ==
    /\ w \subseteq Fds
    /\ \A fd \in w : d.open[fd] # 0
    /\ \A i \in Ids : d.file[i].fd # INVALID =>
        /\ d.file[i].fd \notin w
        /\ d.open[d.file[i].fd] = d.file[i].uniq
        /\ d.file[i].uniq # 0
    /\ \A i, j \in Ids : d.file[i].fd # INVALID /\ d.file[i].fd = d.file[j].fd => i = j
    /\ \A fd \in Fds : d.open[fd] # 0 => fd \in w \/ \E i \in Ids : d.file[i].fd = fd

NamesUnique(d) ==
    \A i, j \in d.rbtree : d.file[i].name = d.file[j].name => i = j

CacheOK(d, h, w) ==
    /\ d \in Cache
    /\ ~d.broken
    /\ QueueOK(d)
    /\ d.current = Cardinality(d.rbtree) /\ d.current <= MaxFiles
    /\ \A i \in Ids : EntryOK(d, i, h[i])
    /\ NamesUnique(d)
    /\ HandlesOK(d, w)

-----------------------------------------------------------------------------
(* The inductive invariant *)

\* The requests of R that hold entry i, and how many they are.
HoldersOf(R, i) == {r \in Reqs : R[r].cached /\ R[r].file = i}
HoldOf(R) == [i \in Ids |-> Cardinality(HoldersOf(R, i))]

\* The request has a descriptor of its own, F being the entries of the cache.
Opening(q, F) ==
    /\ q.of.fd # INVALID
    /\ IF q.file = None THEN TRUE
       ELSE q.pc = "done" /\ q.of.uniq # F[q.file].uniq

OwnOf(R, F) == {R[r].of.fd : r \in {s \in Reqs : Opening(R[s], F)}}

\* The request has the handle of the entry it holds.
Knows(q, F) == q.of.fd = F[q.file].fd /\ q.of.uniq = F[q.file].uniq

\* The result of the thread.
ResultOK(of) ==
    /\ of.err => ~of.ok
    /\ of.is_dir => of.ok /\ of.fd = INVALID
    /\ ~of.ok => of.fd = INVALID
    /\ of.ok /\ ~of.is_dir => of.fd # INVALID

\* What a request knows of the entry it holds and of the disk D.
RequestOK(q, F, D) ==
    LET held == q.file # None
    IN /\ q.pc # "refused"
       /\ ~q.of.special
       /\ held => q.cached
       /\ q.pc = "idle" => q = NoRequest
       /\ q.pc \in {"stat", "open", "done"} =>
            q.name \in Names /\ (held => q.name = F[q.file].name)
       /\ q.pc \in {"stat", "open"} =>
            /\ ~q.of.err /\ ~q.of.ok /\ ~q.of.is_dir
            /\ IF held THEN Knows(q, F) ELSE q.of.fd = INVALID
       /\ q.pc = "open" /\ held => D[q.name].uniq # q.of.uniq
       /\ q.pc = "done" =>
            /\ ResultOK(q.of)
            /\ held /\ q.of.fd # INVALID /\ q.of.uniq = F[q.file].uniq => Knows(q, F)
       /\ q.pc = "using" =>
            /\ q.of.fd # INVALID
            /\ q.cached => held
            /\ held => Knows(q, F)

\* The descriptors that requests opened are open and are different ones.
OpenersOK(R, F, open) ==
    /\ \A r \in Reqs : Opening(R[r], F) => open[R[r].of.fd] = R[r].of.uniq
    /\ \A r, s \in Reqs : Opening(R[r], F) /\ Opening(R[s], F)
                            /\ R[r].of.fd = R[s].of.fd => r = s

\* Files have numbers of their own, no later than the last, and a directory is
\* not open.
DiskOK(open, D) ==
    /\ \E m \in Names : \A n \in Names : D[n].uniq <= D[m].uniq
    /\ \A n \in Names : D[n].uniq > 0
    /\ \A m, n \in Names : D[m].uniq = D[n].uniq => m = n
    /\ \A fd \in Fds, n \in Names : open[fd] = D[n].uniq => D[n].kind # "dir"
    /\ \A fd \in Fds : \E n \in Names : open[fd] <= D[n].uniq

IInv ==
    /\ TypeOK
    /\ CacheOK(c, HoldOf(req), OwnOf(req, c.file))
    /\ \A r \in Reqs : RequestOK(req[r], c.file, disk)
    /\ OpenersOK(req, c.file, c.open)
    /\ DiskOK(c.open, disk)

-----------------------------------------------------------------------------
(* Sequences without repetitions, least elements *)

\* Removing one position of a queue without repeats removes that element and no other.
LEMMA RemoveAtFacts ==
    ASSUME NEW S, NEW q \in Seq(S), NEW k \in DOMAIN q, NoRepeat(q)
    PROVE  /\ RemoveAt(q, k) \in Seq(S)
           /\ NoRepeat(RemoveAt(q, k))
           /\ ToSet(RemoveAt(q, k)) = ToSet(q) \ {q[k]}
<1> DEFINE n == Len(q)
           a == SubSeq(q, 1, k - 1)
           b == SubSeq(q, k + 1, Len(q))
           r == RemoveAt(q, k)
<1>1. n \in Nat /\ DOMAIN q = 1 .. n /\ k \in 1 .. n /\ \A j \in 1 .. n : q[j] \in S
    OBVIOUS
<1> HIDE DEF n
<1>2. /\ a \in Seq(S) /\ Len(a) = k - 1
      /\ \A j \in 1 .. k - 1 : a[j] = q[j]
  <2>1. \A j \in 1 .. k - 1 : q[j] \in S
      BY <1>1
  <2>2. /\ a \in Seq(S) /\ Len(a) = IF 1 <= k - 1 THEN (k - 1) - 1 + 1 ELSE 0
        /\ \A j \in 1 .. (k - 1) - 1 + 1 : a[j] = q[1 + j - 1]
      BY <1>1, <2>1, SubSeqProperties
  <2> QED
      BY <1>1, <2>2
<1>3. /\ b \in Seq(S) /\ Len(b) = n - k
      /\ \A j \in 1 .. n - k : b[j] = q[k + j]
  <2>1. \A j \in k + 1 .. n : q[j] \in S
      BY <1>1
  <2>2. /\ b \in Seq(S) /\ Len(b) = IF k + 1 <= n THEN n - (k + 1) + 1 ELSE 0
        /\ \A j \in 1 .. n - (k + 1) + 1 : b[j] = q[(k + 1) + j - 1]
      BY <1>1, <2>1, SubSeqProperties DEF n
  <2>3. n - (k + 1) + 1 = n - k /\ \A j \in 1 .. n - k : (k + 1) + j - 1 = k + j
      BY <1>1
  <2> QED
      BY <1>1, <2>2, <2>3
<1>4. /\ r \in Seq(S) /\ Len(r) = (k - 1) + (n - k)
      /\ \A j \in 1 .. (k - 1) + (n - k) : r[j] = IF j <= k - 1 THEN a[j] ELSE b[j - (k - 1)]
  <2>1. r = a \o b
      BY DEF RemoveAt
  <2> HIDE DEF a, b, r
  <2> QED
      BY <1>2, <1>3, <2>1, ConcatProperties, SMTT(60)
<1>5. (k - 1) + (n - k) = n - 1 /\ DOMAIN r = 1 .. n - 1
  <2>1. (k - 1) + (n - k) = n - 1
      BY <1>1
  <2> HIDE DEF r
  <2> QED
      BY <1>4, <2>1
<1> HIDE DEF a, b, r
<1>6. \A j \in 1 .. n - 1 : r[j] = IF j < k THEN q[j] ELSE q[j + 1]
  <2> TAKE j \in 1 .. n - 1
  <2>1. CASE j < k
    <3>1. j \in 1 .. k - 1 /\ j <= k - 1
        BY <1>1, <2>1
    <3> QED
        BY <1>2, <1>4, <1>5, <2>1, <3>1
  <2>2. CASE ~(j < k)
    <3>1. j - (k - 1) \in 1 .. n - k /\ k + (j - (k - 1)) = j + 1 /\ ~(j <= k - 1)
        BY <1>1, <2>2
    <3> QED
        BY <1>3, <1>4, <1>5, <2>2, <3>1
  <2> QED
      BY <2>1, <2>2
<1>7. NoRepeat(r)
  <2> SUFFICES ASSUME NEW i \in 1 .. n - 1, NEW j \in 1 .. n - 1, r[i] = r[j] PROVE i = j
      BY <1>5 DEF NoRepeat
  <2> DEFINE at(x) == IF x < k THEN x ELSE x + 1
  <2>1. at(i) \in 1 .. n /\ at(j) \in 1 .. n /\ (at(i) = at(j) => i = j)
      BY <1>1
  <2>2. q[at(i)] = q[at(j)]
      BY <1>6
  <2> QED
      BY <1>1, <2>1, <2>2 DEF NoRepeat
<1>8. ToSet(r) \subseteq ToSet(q) \ {q[k]}
  <2> SUFFICES ASSUME NEW j \in 1 .. n - 1 PROVE r[j] \in ToSet(q) \ {q[k]}
      BY <1>5 DEF ToSet
  <2>1. PICK i \in 1 .. n : r[j] = q[i] /\ i # k
      BY <1>1, <1>6
  <2> QED
      BY <1>1, <2>1 DEF ToSet, NoRepeat
<1>9. ToSet(q) \ {q[k]} \subseteq ToSet(r)
  <2> SUFFICES ASSUME NEW j \in 1 .. n, q[j] # q[k] PROVE q[j] \in ToSet(r)
      BY <1>1 DEF ToSet
  <2>1. CASE j < k
    <3>1. j \in 1 .. n - 1 /\ r[j] = q[j]
        BY <1>1, <1>6, <2>1
    <3> QED
        BY <1>5, <3>1 DEF ToSet
  <2>2. CASE j > k
    <3>1. j - 1 \in 1 .. n - 1 /\ ~(j - 1 < k) /\ (j - 1) + 1 = j
        BY <1>1, <2>2
    <3>2. r[j - 1] = q[j]
        BY <1>6, <3>1
    <3> QED
        BY <1>5, <3>1, <3>2 DEF ToSet
  <2> QED
      BY <1>1, <2>1, <2>2
<1> QED
    BY <1>4, <1>7, <1>8, <1>9 DEF r

\* A new element put at the head keeps the queue free of repeats.
LEMMA InsertHeadFacts ==
    ASSUME NEW S, NEW q \in Seq(S), NEW x \in S, NoRepeat(q), x \notin ToSet(q)
    PROVE  /\ <<x>> \o q \in Seq(S)
           /\ NoRepeat(<<x>> \o q)
           /\ ToSet(<<x>> \o q) = ToSet(q) \cup {x}
<1> DEFINE n == Len(q)
           r == <<x>> \o q
<1>1. n \in Nat /\ DOMAIN q = 1 .. n /\ r \in Seq(S) /\ DOMAIN r = 1 .. n + 1
    OBVIOUS
<1>2. r[1] = x /\ \A j \in 1 .. n : r[j + 1] = q[j]
    OBVIOUS
<1>3. \A j \in 1 .. n + 1 : j = 1 \/ (j - 1 \in 1 .. n /\ r[j] = q[j - 1])
  <2> TAKE j \in 1 .. n + 1
  <2>1. j # 1 => j - 1 \in 1 .. n /\ (j - 1) + 1 = j
      BY <1>1
  <2> QED
      BY <1>2, <2>1
<1> HIDE DEF r, n
<1>4. NoRepeat(r)
  <2> SUFFICES ASSUME NEW i \in 1 .. n + 1, NEW j \in 1 .. n + 1, r[i] = r[j] PROVE i = j
      BY <1>1 DEF NoRepeat
  <2>1. \A m \in 1 .. n : q[m] # x
      BY <1>1 DEF ToSet
  <2>2. CASE i = 1 \/ j = 1
      BY <1>2, <1>3, <2>1, <2>2
  <2>3. CASE i # 1 /\ j # 1
    <3>1. i - 1 = j - 1
        BY <1>1, <1>3, <2>3 DEF NoRepeat
    <3> QED
        BY <3>1
  <2> QED
      BY <2>2, <2>3
<1>5. ToSet(r) = ToSet(q) \cup {x}
  <2>1. ToSet(r) \subseteq ToSet(q) \cup {x}
    <3> SUFFICES ASSUME NEW i \in 1 .. n + 1 PROVE r[i] \in ToSet(q) \cup {x}
        BY <1>1 DEF ToSet
    <3> QED
        BY <1>1, <1>2, <1>3 DEF ToSet
  <2>2. \A j \in 1 .. n : j + 1 \in DOMAIN r /\ 1 \in DOMAIN r
      BY <1>1
  <2>3. ToSet(q) \cup {x} \subseteq ToSet(r)
    <3>1. x \in ToSet(r)
        BY <1>1, <1>2 DEF ToSet
    <3>2. ASSUME NEW j \in 1 .. n PROVE q[j] \in ToSet(r)
        BY <1>2, <2>2 DEF ToSet
    <3> QED
        BY <1>1, <3>1, <3>2 DEF ToSet
  <2> QED
      BY <2>1, <2>3
<1> QED
    BY <1>1, <1>4, <1>5 DEF r

\* A queue without repeats is as long as its set of elements is large.
LEMMA CountOfQueue ==
    ASSUME NEW S, NEW q \in Seq(S), NoRepeat(q)
    PROVE  Cardinality(ToSet(q)) = Len(q)
<1>1. Len(q) \in Nat /\ DOMAIN q = 1 .. Len(q) /\ q = [i \in 1 .. Len(q) |-> q[i]]
    OBVIOUS
<1>2. q \in [1 .. Len(q) -> ToSet(q)]
    BY <1>1 DEF ToSet
<1>3. q \in Bijection(1 .. Len(q), ToSet(q))
    BY <1>1, <1>2 DEF ToSet, NoRepeat, Bijection, Injection, Surjection, IsInjective
<1> QED
    BY <1>1, <1>3, FS_CountingElements DEF ExistsBijection

\* The CHOOSE of the smallest free entry or descriptor.
LEMMA LeastElement ==
    ASSUME NEW T \in SUBSET Nat, T # {}
    PROVE  LET m == CHOOSE x \in T : \A y \in T : x <= y
           IN m \in T /\ \A y \in T : m <= y
<1>1. \E x \in T : \A y \in T : ~(<<y, x>> \in OpToRel(<, Nat))
    BY NatLessThanWellFounded, WFMin
<1>2. \A x, y \in Nat : y < x => <<y, x>> \in OpToRel(<, Nat)
    BY DEF OpToRel
<1>3. \E x \in T : \A y \in T : ~(y < x)
    BY <1>1, <1>2, Zenon
<1>4. \E x \in T : \A y \in T : x <= y
    BY <1>3
<1> QED
    BY <1>4
-----------------------------------------------------------------------------
(* What the helpers do to the fields of a cache *)

\* The descriptors after fd, if it is one, is closed.
Closed(open, fd) == IF fd = INVALID THEN open ELSE [open EXCEPT ![fd] = 0]

\* e differs from d in the entry i at most.
Others(d, e, i) ==
    /\ e.rbtree \ {i} = d.rbtree \ {i}
    /\ \A j \in Ids \ {i} : e.file[j] = d.file[j]

\* The entries that are held keep their handle, and descriptors are only closed.
Keeps(d, e, h) ==
    /\ \A j \in Ids : h[j] > 0 =>
        /\ e.file[j].fd = d.file[j].fd
        /\ e.file[j].uniq = d.file[j].uniq
        /\ e.file[j].name = d.file[j].name
    /\ \A fd \in Fds : e.open[fd] = 0 \/ e.open[fd] = d.open[fd]

\* The sentinels are no identifiers, names or handles.
LEMMA NoneFacts == None \notin Ids /\ None \notin Names /\ INVALID \notin Fds /\ INVALID \notin Ids
    BY OpenFileAssumption DEF Ids, Fds, INVALID

\* There are finitely many entries.
LEMMA IdsFinite ==
    ASSUME NEW T \in SUBSET Ids
    PROVE  IsFiniteSet(T) /\ Cardinality(T) \in Nat
<1>1. IsFiniteSet(Ids)
    BY OpenFileAssumption, FS_Interval DEF Ids
<1> QED
    BY <1>1, FS_Subset, FS_CardinalityType

\* A free slot is a well-formed entry.
LEMMA NoFileType == NoFile \in File
    BY OpenFileAssumption, FS_CardinalityType DEF NoFile, File, Uniqs

\* What queue_remove changes: only the expire queue, which loses the entry.
LEMMA RemoveFields ==
    ASSUME NEW d \in Cache, QueueOK(d), NEW i \in d.rbtree
    PROVE  LET e == queue_remove(d, i)
           IN /\ e \in Cache
              /\ e.file = d.file /\ e.rbtree = d.rbtree /\ e.current = d.current
              /\ e.open = d.open /\ e.broken = d.broken
              /\ NoRepeat(e.expire_queue)
              /\ ToSet(e.expire_queue) = d.rbtree \ {i}
<1> DEFINE q == d.expire_queue
           k == CHOOSE k \in DOMAIN q : q[k] = i
           e == queue_remove(d, i)
<1>1. q \in Seq(Ids) /\ NoRepeat(q) /\ ToSet(q) = d.rbtree
    BY DEF Cache, QueueOK
<1>2. k \in DOMAIN q /\ q[k] = i
    BY <1>1 DEF ToSet
<1>3. e = [d EXCEPT !.expire_queue = RemoveAt(q, k)]
  <2>1. i \in ToSet(d.expire_queue)
      BY <1>1
  <2> QED
      BY <2>1, Zenon DEF queue_remove
<1> HIDE DEF q, k, e
<1>4. /\ RemoveAt(q, k) \in Seq(Ids) /\ NoRepeat(RemoveAt(q, k))
      /\ ToSet(RemoveAt(q, k)) = d.rbtree \ {i}
    BY <1>1, <1>2, RemoveAtFacts
<1>5. /\ e \in Cache
      /\ e.file = d.file /\ e.rbtree = d.rbtree /\ e.current = d.current
      /\ e.open = d.open /\ e.broken = d.broken
      /\ e.expire_queue = RemoveAt(q, k)
    BY <1>3, <1>4 DEF Cache
<1> QED
    BY <1>4, <1>5 DEF e

\* What queue_insert_head changes: only the expire queue, which gains the entry.
LEMMA InsertFields ==
    ASSUME NEW d \in Cache, NEW i \in Ids, NoRepeat(d.expire_queue),
           i \notin ToSet(d.expire_queue)
    PROVE  LET e == queue_insert_head(d, i)
           IN /\ e \in Cache
              /\ e.file = d.file /\ e.rbtree = d.rbtree /\ e.current = d.current
              /\ e.open = d.open /\ e.broken = d.broken
              /\ NoRepeat(e.expire_queue)
              /\ ToSet(e.expire_queue) = ToSet(d.expire_queue) \cup {i}
<1> DEFINE q == d.expire_queue
           e == queue_insert_head(d, i)
<1>1. q \in Seq(Ids)
    BY DEF Cache
<1>2. /\ <<i>> \o q \in Seq(Ids) /\ NoRepeat(<<i>> \o q)
      /\ ToSet(<<i>> \o q) = ToSet(q) \cup {i}
    BY <1>1, InsertHeadFacts
<1>3. e = [d EXCEPT !.expire_queue = <<i>> \o q]
    BY DEF queue_insert_head
<1> HIDE DEF q, e
<1>4. /\ e \in Cache
      /\ e.file = d.file /\ e.rbtree = d.rbtree /\ e.current = d.current
      /\ e.open = d.open /\ e.broken = d.broken
      /\ e.expire_queue = <<i>> \o q
    BY <1>2, <1>3 DEF Cache
<1> QED
    BY <1>2, <1>4 DEF e, q

\* Moving an entry to the head of the expire queue keeps the same entries queued.
LEMMA MoveFields ==
    ASSUME NEW d \in Cache, QueueOK(d), NEW i \in d.rbtree
    PROVE  LET e == queue_insert_head(queue_remove(d, i), i)
           IN /\ e \in Cache /\ QueueOK(e)
              /\ e.file = d.file /\ e.rbtree = d.rbtree /\ e.current = d.current
              /\ e.open = d.open /\ e.broken = d.broken
<1> DEFINE m == queue_remove(d, i)
           e == queue_insert_head(m, i)
<1>1. i \in Ids
    BY DEF Cache
<1>2. /\ m \in Cache
      /\ m.file = d.file /\ m.rbtree = d.rbtree /\ m.current = d.current
      /\ m.open = d.open /\ m.broken = d.broken
      /\ NoRepeat(m.expire_queue)
      /\ ToSet(m.expire_queue) = d.rbtree \ {i}
    BY RemoveFields
<1> HIDE DEF m
<1>3. /\ e \in Cache
      /\ e.file = m.file /\ e.rbtree = m.rbtree /\ e.current = m.current
      /\ e.open = m.open /\ e.broken = m.broken
      /\ NoRepeat(e.expire_queue)
      /\ ToSet(e.expire_queue) = ToSet(m.expire_queue) \cup {i}
    BY <1>1, <1>2, InsertFields
<1> HIDE DEF e
<1>4. QueueOK(e)
    BY <1>2, <1>3 DEF QueueOK
<1> QED
    BY <1>2, <1>3, <1>4 DEF e, m

\* What ngx_close_file changes: only the handle it closes, when that one is open.
LEMMA CloseFields ==
    ASSUME NEW d \in Cache, NEW fd \in Fds, d.open[fd] # 0
    PROVE  LET e == ngx_close_file(d, fd)
           IN /\ e \in Cache
              /\ e.file = d.file /\ e.rbtree = d.rbtree /\ e.current = d.current
              /\ e.expire_queue = d.expire_queue /\ e.broken = d.broken
              /\ e.open = Closed(d.open, fd)
<1>1. ngx_close_file(d, fd) = [d EXCEPT !.open[fd] = 0]
    BY NoneFacts DEF ngx_close_file
<1>2. 0 \in Uniqs
    BY OpenFileAssumption, FS_CardinalityType DEF Uniqs
<1> QED
    BY NoneFacts, <1>1, <1>2, ZenonT(60) DEF Cache, Closed

\* What rbtree_delete changes: the tree and cache->current, together.
LEMMA UnlinkFields ==
    ASSUME NEW d \in Cache, NEW i \in d.rbtree, d.current = Cardinality(d.rbtree)
    PROVE  LET e == rbtree_delete(d, i)
           IN /\ e \in Cache
              /\ e.file = d.file /\ e.rbtree = d.rbtree \ {i}
              /\ e.current = Cardinality(e.rbtree) /\ e.current = d.current - 1
              /\ e.open = d.open /\ e.broken = d.broken
              /\ e.expire_queue = d.expire_queue
<1> DEFINE e == rbtree_delete(d, i)
<1>1. d.rbtree \in SUBSET Ids /\ d.broken \in BOOLEAN
    BY DEF Cache
<1>2. IsFiniteSet(d.rbtree) /\ Cardinality(d.rbtree \ {i}) \in Nat
    BY <1>1, IdsFinite
<1>3. Cardinality(d.rbtree \ {i}) = d.current - 1
    BY <1>2, FS_RemoveElement
<1>4. e = [d EXCEPT !.rbtree = d.rbtree \ {i}, !.current = d.current - 1, !.broken = d.broken]
    BY <1>1 DEF rbtree_delete
<1> HIDE DEF e
<1>5. /\ e.file = d.file /\ e.rbtree = d.rbtree \ {i} /\ e.current = d.current - 1
      /\ e.open = d.open /\ e.broken = d.broken
      /\ e.expire_queue = d.expire_queue
    BY <1>4 DEF Cache
<1>6. e \in Cache
    BY <1>1, <1>2, <1>3, <1>4 DEF Cache
<1> QED
    BY <1>3, <1>5, <1>6 DEF e
-----------------------------------------------------------------------------
(* How an entry and its handle may change *)

\* The rest of the cache is in order if it was.
LEMMA OneEntry ==
    ASSUME NEW d, NEW e \in Cache, NEW h, NEW g, NEW w, NEW x, NEW i \in Ids,
           CacheOK(d, h, w), ~e.broken, QueueOK(e),
           e.current = Cardinality(e.rbtree), e.current <= MaxFiles,
           Others(d, e, i), \A j \in Ids \ {i} : g[j] = h[j],
           EntryOK(e, i, g[i]),
           i \in e.rbtree => \A j \in e.rbtree \ {i} : e.file[j].name # e.file[i].name,
           HandlesOK(e, x)
    PROVE  CacheOK(e, g, x)
<1>1. ASSUME NEW j \in Ids PROVE EntryOK(e, j, g[j])
  <2>1. CASE j = i
      BY <2>1
  <2>2. CASE j # i
    <3>1. e.file[j] = d.file[j] /\ g[j] = h[j] /\ (j \in e.rbtree <=> j \in d.rbtree)
        BY <2>2 DEF Others
    <3>2. EntryOK(d, j, h[j])
        BY DEF CacheOK
    <3> QED
        BY <3>1, <3>2 DEF EntryOK
  <2> QED
      BY <2>1, <2>2
<1>2. NamesUnique(e)
  <2> SUFFICES ASSUME NEW j \in e.rbtree, NEW k \in e.rbtree,
                      e.file[j].name = e.file[k].name, j # k
               PROVE  FALSE
      BY DEF NamesUnique
  <2>1. j # i /\ k # i
      OBVIOUS
  <2>2. j \in Ids /\ k \in Ids
      BY DEF Cache
  <2>3. j \in d.rbtree /\ k \in d.rbtree /\ e.file[j] = d.file[j] /\ e.file[k] = d.file[k]
      BY <2>1, <2>2 DEF Others
  <2> QED
      BY <2>3 DEF CacheOK, NamesUnique
<1> QED
    BY <1>1, <1>2 DEF CacheOK

\* The entry keeps its handle, or has none before and after.
LEMMA HandleKept ==
    ASSUME NEW d, NEW e, NEW w, NEW i \in Ids, HandlesOK(d, w), Others(d, e, i),
           e.open = d.open, e.file[i].fd = d.file[i].fd, e.file[i].uniq = d.file[i].uniq
    PROVE  HandlesOK(e, w)
<1>1. \A j \in Ids : e.file[j].fd = d.file[j].fd /\ e.file[j].uniq = d.file[j].uniq
    BY DEF Others
<1> QED
    BY <1>1 DEF HandlesOK

\* The entry has no handle before and after.
LEMMA HandleNone ==
    ASSUME NEW d, NEW e, NEW w, NEW i \in Ids, HandlesOK(d, w), Others(d, e, i),
           e.open = d.open, d.file[i].fd = INVALID, e.file[i].fd = INVALID
    PROVE  HandlesOK(e, w)
<1>1. \A j \in Ids : e.file[j].fd = d.file[j].fd
    BY DEF Others
<1>2. \A j \in Ids : e.file[j].fd # INVALID => e.file[j].uniq = d.file[j].uniq
    BY DEF Others
<1> QED
    BY <1>1, <1>2 DEF HandlesOK

\* The handle of the entry is closed.
LEMMA HandleClosed ==
    ASSUME NEW d \in Cache, NEW e, NEW w, NEW i \in Ids, HandlesOK(d, w), Others(d, e, i),
           NEW fd \in Fds, d.file[i].fd = fd,
           e.open = Closed(d.open, fd), e.file[i].fd = INVALID
    PROVE  HandlesOK(e, w)
<1>1. \A j \in Ids \ {i} : e.file[j] = d.file[j]
    BY DEF Others
<1>2. fd # INVALID /\ \A x \in Fds : e.open[x] = IF x = fd THEN 0 ELSE d.open[x]
    BY NoneFacts DEF Cache, Closed
<1>3. \A j \in Ids : d.file[j].fd \in Fds \cup {INVALID}
    BY DEF Cache, File
<1>4. fd \notin w /\ \A j \in Ids \ {i} : d.file[j].fd # fd
    BY <1>2 DEF HandlesOK
<1> QED
    BY <1>1, <1>2, <1>3, <1>4 DEF HandlesOK

\* The entry, without a handle, is given one that a request owned.
LEMMA HandleGiven ==
    ASSUME NEW d, NEW e, NEW w, NEW i \in Ids, HandlesOK(d, w), Others(d, e, i),
           NEW fd \in w, d.file[i].fd = INVALID, e.open = d.open,
           e.file[i].fd = fd, e.file[i].uniq = d.open[fd]
    PROVE  HandlesOK(e, w \ {fd})
<1>1. \A j \in Ids \ {i} : e.file[j] = d.file[j]
    BY DEF Others
<1>2. \A j \in Ids : d.file[j].fd # INVALID => d.file[j].fd # fd
    BY DEF HandlesOK
<1>3. fd # INVALID /\ d.open[fd] # 0
    BY NoneFacts DEF HandlesOK
<1>4. \A x \in Fds : e.open[x] # 0 =>
        x \in w \ {fd} \/ \E j \in Ids : e.file[j].fd = x
  <2> SUFFICES ASSUME NEW x \in Fds, e.open[x] # 0, x \notin w \ {fd}
               PROVE  \E j \in Ids : e.file[j].fd = x
      OBVIOUS
  <2>1. CASE x = fd
      BY <2>1
  <2>2. CASE x # fd
    <3>1. PICK j \in Ids : d.file[j].fd = x
        BY <2>2 DEF HandlesOK
    <3>2. j # i
        BY <3>1, NoneFacts
    <3> QED
        BY <1>1, <3>1, <3>2
  <2> QED
      BY <2>1, <2>2
<1>5. \A j, k \in Ids : e.file[j].fd # INVALID /\ e.file[j].fd = e.file[k].fd => j = k
    BY <1>1, <1>2, <1>3 DEF HandlesOK
<1>6. \A j \in Ids : e.file[j].fd # INVALID =>
        /\ e.file[j].fd \notin w \ {fd}
        /\ e.open[e.file[j].fd] = e.file[j].uniq
        /\ e.file[j].uniq # 0
    BY <1>1, <1>2, <1>3 DEF HandlesOK
<1> QED
    BY <1>4, <1>5, <1>6 DEF HandlesOK

\* A handle that a request owned is closed.
LEMMA HandleDropped ==
    ASSUME NEW d \in Cache, NEW e, NEW w, HandlesOK(d, w),
           \A j \in Ids : e.file[j].fd = d.file[j].fd /\ e.file[j].uniq = d.file[j].uniq,
           NEW fd \in w, e.open = Closed(d.open, fd)
    PROVE  HandlesOK(e, w \ {fd})
<1>1. fd \in Fds /\ \A x \in Fds : e.open[x] = IF x = fd THEN 0 ELSE d.open[x]
    BY NoneFacts DEF Cache, HandlesOK, Closed
<1>2. \A j \in Ids : d.file[j].fd # INVALID => d.file[j].fd # fd /\ d.file[j].fd \in Fds
    BY DEF HandlesOK, Cache, File
<1> QED
    BY <1>1, <1>2 DEF HandlesOK

\* CloseOwn: a request closes the handle it opened.
LEMMA CloseOwnOK ==
    ASSUME NEW d, NEW h, NEW w, CacheOK(d, h, w), NEW of,
           of.fd # INVALID => of.fd \in w
    PROVE  /\ CacheOK(CloseOwn(d, of), h, w \ {of.fd})
           /\ Keeps(d, CloseOwn(d, of), h)
<1> DEFINE e == CloseOwn(d, of)
<1>1. CASE of.fd = INVALID
  <2>1. e = d
      BY <1>1 DEF CloseOwn
  <2>2. w \ {of.fd} = w
      BY <1>1, NoneFacts DEF CacheOK, HandlesOK
  <2> HIDE DEF e
  <2> QED
      BY <2>1, <2>2 DEF e, Keeps
<1>2. CASE of.fd # INVALID
  <2> DEFINE fd == of.fd
  <2>1. d \in Cache /\ fd \in w /\ fd \in Fds /\ d.open[fd] # 0 /\ HandlesOK(d, w)
      BY <1>2 DEF CacheOK, HandlesOK
  <2>2. e = ngx_close_file(d, fd)
      BY <1>2 DEF CloseOwn
  <2> HIDE DEF e, fd
  <2>3. /\ e \in Cache
        /\ e.file = d.file /\ e.rbtree = d.rbtree /\ e.current = d.current
        /\ e.expire_queue = d.expire_queue /\ e.broken = d.broken
        /\ e.open = Closed(d.open, fd)
      BY <2>1, <2>2, CloseFields
  <2>4. HandlesOK(e, w \ {fd})
      BY <2>1, <2>3, HandleDropped
  <2>5. CacheOK(e, h, w \ {fd})
      BY <2>3, <2>4 DEF CacheOK, QueueOK, EntryOK, NamesUnique
  <2>6. Keeps(d, e, h)
      BY <2>1, <2>3 DEF Keeps, Cache, Closed
  <2> QED
      BY <2>5, <2>6 DEF e, fd
<1> QED
    BY <1>1, <1>2
-----------------------------------------------------------------------------
(* ngx_close_cached_file and ngx_expire_old_cached_files *)

\* Writing one entry changes neither the other entries nor the structures.
LEMMA SetFile ==
    ASSUME NEW d \in Cache, NEW i \in Ids, NEW x \in File
    PROVE  LET e == [d EXCEPT !.file[i] = x]
           IN /\ e \in Cache
              /\ e.file = [d.file EXCEPT ![i] = x]
              /\ e.file[i] = x /\ \A j \in Ids \ {i} : e.file[j] = d.file[j]
              /\ e.rbtree = d.rbtree /\ e.current = d.current
              /\ e.expire_queue = d.expire_queue /\ e.broken = d.broken
              /\ e.open = d.open
<1>1. [d EXCEPT !.file[i] = x] = [d EXCEPT !.file = [d.file EXCEPT ![i] = x]]
    OBVIOUS
<1> QED
    BY <1>1 DEF Cache

\* e is d without the entry i, which is in neither the tree nor the queue.
Freed(d, e, i) ==
    /\ e \in Cache
    /\ e.file[i] = NoFile /\ \A j \in Ids \ {i} : e.file[j] = d.file[j]
    /\ e.rbtree = d.rbtree /\ e.current = d.current
    /\ e.expire_queue = d.expire_queue /\ e.broken = d.broken
    /\ e.open = Closed(d.open, d.file[i].fd)

\* An entry that left the cache stays while it has users and goes with the last.
LEMMA CloseInUse ==
    ASSUME NEW d, NEW i, NEW mu, d.file[i].close = TRUE, d.file[i].count # 0
    PROVE  ngx_close_cached_file(d, i, mu) = d
    BY DEF ngx_close_cached_file

\* ngx_close_cached_file of an entry out of the tree that nobody uses frees it.
LEMMA CloseUnused ==
    ASSUME NEW d \in Cache, NEW i \in Ids, NEW mu, d.file[i].close = TRUE,
           d.file[i].count = 0,
           d.file[i].fd # INVALID => d.open[d.file[i].fd] # 0,
           NEW e, e = ngx_close_cached_file(d, i, mu)
    PROVE  Freed(d, e, i)
<1> USE DEF Freed
<1> DEFINE f == d.file[i]
<1>0. f \in File /\ NoFile \in File
    BY NoFileType DEF Cache
<1>1. CASE f.fd = INVALID
  <2>1. e = [d EXCEPT !.file[i] = NoFile]
      BY <1>1 DEF ngx_close_cached_file, Free
  <2> QED
      BY <1>0, <1>1, <2>1, SetFile DEF Closed
<1>2. CASE f.fd # INVALID
  <2> DEFINE m == ngx_close_file(d, f.fd)
             k == [m EXCEPT !.file[i].fd = INVALID]
  <2>1. e = [k EXCEPT !.file[i] = NoFile]
      BY <1>2 DEF ngx_close_cached_file, Free
  <2>2. f.fd \in Fds /\ d.open[f.fd] # 0
      BY <1>0, <1>2 DEF File
  <2>3. /\ m \in Cache
        /\ m.file = d.file /\ m.rbtree = d.rbtree /\ m.current = d.current
        /\ m.expire_queue = d.expire_queue /\ m.broken = d.broken
        /\ m.open = Closed(d.open, f.fd)
      BY <2>2, CloseFields
  <2> HIDE DEF m
  <2>4. /\ k \in Cache
        /\ \A j \in Ids \ {i} : k.file[j] = m.file[j]
        /\ k.rbtree = m.rbtree /\ k.current = m.current
        /\ k.expire_queue = m.expire_queue /\ k.broken = m.broken
        /\ k.open = m.open
    <3>1. k = [m EXCEPT !.file[i] = [m.file[i] EXCEPT !.fd = INVALID]]
        OBVIOUS
    <3>2. [m.file[i] EXCEPT !.fd = INVALID] \in File
        BY <1>0, <2>3 DEF File
    <3> HIDE DEF k
    <3> QED
        BY <2>3, <3>1, <3>2, SetFile
  <2> HIDE DEF k
  <2>5. /\ e \in Cache
        /\ e.file[i] = NoFile /\ \A j \in Ids \ {i} : e.file[j] = k.file[j]
        /\ e.rbtree = k.rbtree /\ e.current = k.current
        /\ e.expire_queue = k.expire_queue /\ e.broken = k.broken
        /\ e.open = k.open
      BY <1>0, <2>1, <2>4, SetFile
  <2> QED
      BY <1>2, <2>3, <2>4, <2>5, SMTT(60)
<1> QED
    BY <1>1, <1>2

\* A request gives back the entry it holds.
LEMMA GiveBack ==
    ASSUME NEW d, NEW h \in [Ids -> Nat], NEW w, CacheOK(d, h, w),
           NEW i \in Ids, h[i] > 0, NEW mu
    PROVE  LET e == ngx_close_cached_file([d EXCEPT !.file[i].count = @ - 1], i, mu)
               g == [h EXCEPT ![i] = @ - 1]
           IN CacheOK(e, g, w) /\ Keeps(d, e, g)
<1> DEFINE f == d.file[i]
           a == [d EXCEPT !.file[i].count = @ - 1]
           e == ngx_close_cached_file(a, i, mu)
           g == [h EXCEPT ![i] = @ - 1]
<1>1. /\ d \in Cache /\ EntryOK(d, i, h[i]) /\ HandlesOK(d, w) /\ QueueOK(d)
      /\ ~d.broken /\ d.current = Cardinality(d.rbtree) /\ d.current <= MaxFiles
      /\ NamesUnique(d)
    BY DEF CacheOK
<1>2. /\ f \in File /\ f.count = h[i] /\ f.live /\ ~f.is_dir /\ ~f.err /\ f.fd # INVALID
      /\ f.fd \in Fds /\ d.open[f.fd] # 0 /\ (f.close <=> i \notin d.rbtree) /\ ~f.special
    BY <1>1 DEF EntryOK, HandlesOK, Cache, File
<1>3. /\ a \in Cache /\ a.rbtree = d.rbtree /\ a.current = d.current
      /\ a.expire_queue = d.expire_queue /\ a.broken = d.broken /\ a.open = d.open
      /\ \A j \in Ids \ {i} : a.file[j] = d.file[j]
      /\ a.file[i] = [f EXCEPT !.count = h[i] - 1] /\ a.file[i] \in File
  <2>1. a = [d EXCEPT !.file[i] = [f EXCEPT !.count = h[i] - 1]]
      BY <1>2
  <2>2. [f EXCEPT !.count = h[i] - 1] \in File
      BY <1>2 DEF File
  <2> HIDE DEF a, f
  <2> QED
      BY <1>1, <2>1, <2>2, SetFile
<1> DEFINE b == a.file[i]
<1>4. /\ b \in File /\ b.count = h[i] - 1 /\ b.live /\ ~b.is_dir /\ ~b.err /\ ~b.special
      /\ b.fd = f.fd /\ b.uniq = f.uniq /\ b.name = f.name /\ b.close = f.close
    BY <1>2, <1>3 DEF File
<1>5. g \in [Ids -> Nat] /\ g[i] = h[i] - 1 /\ \A j \in Ids \ {i} : g[j] = h[j]
    OBVIOUS
<1> HIDE DEF a, g, e
<1>6. QueueOK(a)
    BY <1>1, <1>3, SMTT(60) DEF QueueOK
<1>7. SUFFICES /\ e \in Cache /\ ~e.broken /\ QueueOK(e)
               /\ e.rbtree = d.rbtree /\ e.current = d.current
               /\ \A j \in Ids \ {i} : e.file[j] = d.file[j]
               /\ EntryOK(e, i, g[i])
               /\ i \in e.rbtree => e.file[i].name = f.name
               /\ HandlesOK(e, w)
               /\ g[i] > 0 => e.file[i].fd = f.fd /\ e.file[i].uniq = f.uniq /\ e.file[i].name = f.name
               /\ \A fd \in Fds : e.open[fd] = 0 \/ e.open[fd] = d.open[fd]
  <2>1. Others(d, e, i)
      BY DEF Others
  <2>2. i \in e.rbtree => \A j \in e.rbtree \ {i} : e.file[j].name # e.file[i].name
      BY <1>1, <1>7 DEF NamesUnique, Cache
  <2>3. CacheOK(e, g, w)
      BY <1>1, <1>5, <1>7, <2>1, <2>2, OneEntry
  <2>4. Keeps(d, e, g)
      BY <1>5, <1>7 DEF Keeps
  <2> QED
      BY <2>3, <2>4 DEF a, e, g
<1>8. CASE f.close /\ g[i] # 0
  <2>1. a.file[i].close = TRUE /\ a.file[i].count # 0
      BY <1>2, <1>4, <1>5, <1>8 DEF File
  <2>0. e = a
      BY <2>1, CloseInUse DEF e
  <2>2. Others(d, a, i)
      BY <1>3, <1>4 DEF Others
  <2>3. HandlesOK(a, w)
      BY <1>1, <1>3, <1>4, <2>2, HandleKept
  <2>4. EntryOK(a, i, g[i])
      BY <1>2, <1>3, <1>4, <1>5, <1>8 DEF EntryOK
  <2> QED
      BY <1>1, <1>3, <1>4, <1>5, <1>6, <2>0, <2>3, <2>4
<1>9. CASE f.close /\ g[i] = 0
  <2>1. /\ e \in Cache
        /\ e.file[i] = NoFile /\ \A j \in Ids \ {i} : e.file[j] = a.file[j]
        /\ e.rbtree = a.rbtree /\ e.current = a.current
        /\ e.expire_queue = a.expire_queue /\ e.broken = a.broken
        /\ e.open = Closed(a.open, f.fd)
    <3>1. /\ a.file[i].close = TRUE /\ a.file[i].count = 0 /\ ~(a.file[i].fd = INVALID)
          /\ a.file[i].fd = f.fd /\ (a.file[i].fd # INVALID => a.open[a.file[i].fd] # 0)
        BY <1>2, <1>3, <1>4, <1>5, <1>9 DEF File
    <3>2. Freed(a, e, i)
        BY <1>3, <3>1, CloseUnused DEF e
    <3> QED
        BY <3>1, <3>2 DEF Freed
  <2>2. e.file[i] = NoFile /\ \A j \in Ids \ {i} : e.file[j] = d.file[j]
      BY <1>3, <1>4, <2>1 DEF Cache
  <2>3. Others(d, e, i)
      BY <1>3, <2>1, <2>2 DEF Others
  <2>4. e.file[i].fd = INVALID
      BY <2>2 DEF NoFile
  <2>5. HandlesOK(e, w)
    <3>1. e.open = Closed(d.open, f.fd)
        BY <1>3, <2>1
    <3> QED
        BY <1>1, <1>2, <2>3, <2>4, <3>1, HandleClosed
  <2>6. EntryOK(e, i, g[i])
      BY <1>2, <1>3, <1>9, <2>1, <2>2 DEF EntryOK, NoFile, INVALID
  <2>7. QueueOK(e)
      BY <1>6, <2>1 DEF QueueOK
  <2>8. \A fd \in Fds : e.open[fd] = 0 \/ e.open[fd] = d.open[fd]
      BY <1>2, <1>3, <2>1 DEF Cache, Closed
  <2>9. i \notin e.rbtree
      BY <1>2, <1>3, <1>9, <2>1
  <2> QED
      BY <1>1, <1>3, <1>9, <2>1, <2>2, <2>5, <2>6, <2>7, <2>8, <2>9
<1>10. CASE ~f.close
  <2> DEFINE m == queue_insert_head(queue_remove(a, i), i)
  <2>1. i \in a.rbtree
      BY <1>2, <1>3, <1>10
  <2>2. /\ m \in Cache /\ QueueOK(m)
        /\ m.file = a.file /\ m.rbtree = a.rbtree /\ m.current = a.current
        /\ m.open = a.open /\ m.broken = a.broken
      BY <1>3, <1>6, <2>1, MoveFields
  <2>3. CASE b.uses >= mu \/ b.count # 0
    <3>1. e = m
        BY <1>4, <1>10, <2>3 DEF e, ngx_close_cached_file
    <3> HIDE DEF m
    <3>2. Others(d, e, i)
        BY <1>3, <1>4, <2>2, <3>1 DEF Others
    <3>3. HandlesOK(e, w)
        BY <1>1, <1>3, <1>4, <2>2, <3>1, <3>2, HandleKept
    <3>4. EntryOK(e, i, g[i])
        BY <1>2, <1>3, <1>4, <1>5, <1>10, <2>1, <2>2, <3>1 DEF EntryOK
    <3> QED
        BY <1>1, <1>3, <1>4, <2>2, <3>1, <3>3, <3>4
  <2>4. CASE ~(b.uses >= mu \/ b.count # 0)
    <3> DEFINE k == ngx_close_file(m, b.fd)
    <3>1. e = [k EXCEPT !.file[i].fd = INVALID]
        BY <1>2, <1>4, <1>10, <2>4 DEF e, ngx_close_cached_file
    <3> HIDE DEF m
    <3>2. /\ k \in Cache
          /\ k.file = m.file /\ k.rbtree = m.rbtree /\ k.current = m.current
          /\ k.expire_queue = m.expire_queue /\ k.broken = m.broken
          /\ k.open = Closed(m.open, b.fd)
      <4>1. m \in Cache /\ b.fd \in Fds /\ m.open[b.fd] # 0
          BY <1>2, <1>3, <1>4, <2>2
      <4> QED
          BY <4>1, CloseFields
    <3> HIDE DEF k
    <3>3. /\ e \in Cache /\ e.rbtree = d.rbtree /\ e.current = d.current
          /\ e.expire_queue = m.expire_queue /\ ~e.broken
          /\ e.open = Closed(d.open, f.fd)
          /\ e.file[i] = [b EXCEPT !.fd = INVALID]
          /\ \A j \in Ids \ {i} : e.file[j] = d.file[j]
      <4>0. k.file[i] = b
          BY <2>2, <3>2 DEF b
      <4>1. e = [k EXCEPT !.file[i] = [b EXCEPT !.fd = INVALID]]
          BY <3>1, <4>0
      <4>2. [b EXCEPT !.fd = INVALID] \in File
          BY <1>4 DEF File
      <4>3. /\ e \in Cache /\ e.file[i] = [b EXCEPT !.fd = INVALID]
            /\ \A j \in Ids \ {i} : e.file[j] = k.file[j]
            /\ e.rbtree = k.rbtree /\ e.current = k.current
            /\ e.expire_queue = k.expire_queue /\ e.broken = k.broken
            /\ e.open = k.open
          BY <3>2, <4>1, <4>2, SetFile
      <4> QED
          BY <1>1, <1>3, <1>4, <2>2, <3>2, <4>3
    <3>4. Others(d, e, i)
        BY <3>3 DEF Others
    <3>5. e.file[i].fd = INVALID
        BY <1>4, <3>3 DEF File
    <3>6. HandlesOK(e, w)
        BY <1>1, <1>2, <3>3, <3>4, <3>5, HandleClosed
    <3>7. g[i] = 0
        BY <1>4, <1>5, <2>4
    <3>8. EntryOK(e, i, g[i])
        BY <1>2, <1>3, <1>4, <1>10, <2>1, <2>4, <3>3, <3>7 DEF EntryOK, File
    <3>9. QueueOK(e)
        BY <1>3, <2>2, <3>3 DEF QueueOK
    <3>10. e.file[i].name = f.name
        BY <1>4, <3>3 DEF File
    <3>11. \A fd \in Fds : e.open[fd] = 0 \/ e.open[fd] = d.open[fd]
        BY <1>1, <1>2, <3>3 DEF Cache, Closed
    <3> QED
        BY <3>3, <3>6, <3>7, <3>8, <3>9, <3>10, <3>11
  <2> QED
      BY <2>3, <2>4
<1> QED
    BY <1>8, <1>9, <1>10
\* Entry i leaves the tree and the queue.
Out(d, x, i) ==
    /\ x \in Cache /\ ~x.broken /\ QueueOK(x)
    /\ x.rbtree = d.rbtree \ {i} /\ x.current = d.current - 1
    /\ \A j \in Ids \ {i} : x.file[j] = d.file[j]

\* The entry is the same but for its times, its uses and its close flag.
Same(f, g) ==
    /\ g \in File
    /\ g.live = f.live /\ g.name = f.name /\ g.fd = f.fd /\ g.uniq = f.uniq
    /\ g.err = f.err /\ g.is_dir = f.is_dir /\ g.special = f.special /\ g.count = f.count

\* An entry taken out of both structures leaves the count and the limit right.
LEMMA OutFacts ==
    ASSUME NEW d, NEW h, NEW w, CacheOK(d, h, w), NEW i \in d.rbtree, NEW x, Out(d, x, i)
    PROVE  /\ i \in Ids /\ Others(d, x, i) /\ i \notin x.rbtree
           /\ x.current = Cardinality(x.rbtree) /\ x.current < d.current
           /\ x.current <= MaxFiles
<1>1. d.rbtree \in SUBSET Ids /\ d.current = Cardinality(d.rbtree) /\ d.current <= MaxFiles
      /\ d.current \in Nat
    BY DEF CacheOK, Cache
<1>2. Cardinality(d.rbtree \ {i}) = d.current - 1
    BY <1>1, IdsFinite, FS_RemoveElement
<1> QED
    BY <1>1, <1>2, OpenFileAssumption DEF Out, Others

\* Its users keep the entry.
LEMMA LeavesInUse ==
    ASSUME NEW d, NEW h \in [Ids -> Nat], NEW w, CacheOK(d, h, w),
           NEW i \in d.rbtree, h[i] > 0, NEW x, Out(d, x, i),
           Same(d.file[i], x.file[i]), x.file[i].close = TRUE, x.open = d.open
    PROVE  CacheOK(x, h, w) /\ Keeps(d, x, h)
<1>1. /\ i \in Ids /\ Others(d, x, i) /\ i \notin x.rbtree
      /\ x.current = Cardinality(x.rbtree) /\ x.current <= MaxFiles
    BY OutFacts
<1>2. EntryOK(d, i, h[i]) /\ HandlesOK(d, w)
    BY <1>1 DEF CacheOK
<1>3. HandlesOK(x, w)
    BY <1>1, <1>2, HandleKept DEF Same
<1>4. EntryOK(x, i, h[i])
    BY <1>1, <1>2 DEF EntryOK, Same
<1>5. CacheOK(x, h, w)
    BY <1>1, <1>3, <1>4, OneEntry DEF Out
<1>6. Keeps(d, x, h)
    BY <1>1 DEF Keeps, Same, Out
<1> QED
    BY <1>5, <1>6

\* An entry without users is freed and its handle is closed.
LEMMA LeavesUnused ==
    ASSUME NEW d, NEW h \in [Ids -> Nat], NEW w, CacheOK(d, h, w),
           NEW i \in d.rbtree, h[i] = 0, NEW x, Out(d, x, i),
           x.file[i] = NoFile, x.open = Closed(d.open, d.file[i].fd)
    PROVE  CacheOK(x, h, w) /\ Keeps(d, x, h)
<1>1. /\ i \in Ids /\ Others(d, x, i) /\ i \notin x.rbtree
      /\ x.current = Cardinality(x.rbtree) /\ x.current <= MaxFiles
    BY OutFacts
<1>2. EntryOK(d, i, h[i]) /\ HandlesOK(d, w) /\ d \in Cache
    BY <1>1 DEF CacheOK
<1>3. d.file[i].fd \in Fds \cup {INVALID}
    BY <1>1, <1>2 DEF Cache, File
<1>4. x.file[i].fd = INVALID
    BY DEF NoFile
<1>5. HandlesOK(x, w)
  <2>1. CASE d.file[i].fd = INVALID
    <3>1. x.open = d.open
        BY <2>1 DEF Closed
    <3> QED
        BY <1>1, <1>2, <1>4, <2>1, <3>1, HandleNone
  <2>2. CASE d.file[i].fd \in Fds
      BY <1>1, <1>2, <1>4, <2>2, HandleClosed
  <2> QED
      BY <1>3, <2>1, <2>2
<1>6. EntryOK(x, i, h[i])
    BY <1>1 DEF EntryOK, NoFile
<1>7. CacheOK(x, h, w)
    BY <1>1, <1>5, <1>6, OneEntry DEF Out
<1>8. \A fd \in Fds : x.open[fd] = 0 \/ x.open[fd] = d.open[fd]
    BY <1>2, <1>3 DEF Closed, Cache
<1>9. Keeps(d, x, h)
    BY <1>1, <1>8 DEF Keeps, Out
<1> QED
    BY <1>7, <1>9

\* No entry is added to the tree.
Fewer(d, e) == e.rbtree \subseteq d.rbtree /\ \A j \in e.rbtree : e.file[j].name = d.file[j].name

\* Expiring the last of the queue keeps the cache consistent and shrinks it.
LEMMA ExpireLastOK ==
    ASSUME NEW d, NEW h \in [Ids -> Nat], NEW w, CacheOK(d, h, w), d.expire_queue # <<>>,
           NEW e, e = expire_last(d)
    PROVE  CacheOK(e, h, w) /\ Keeps(d, e, h) /\ Fewer(d, e) /\ e.current < d.current
<1> DEFINE i == Last(d.expire_queue)
           r == queue_remove(d, i)
           o == rbtree_delete(r, i)
           f == d.file[i]
<1>1. d \in Cache /\ QueueOK(d) /\ d.current = Cardinality(d.rbtree) /\ ~d.broken
    BY DEF CacheOK
<1>2. i \in d.rbtree /\ i \in Ids
  <2>1. d.expire_queue \in Seq(Ids) /\ ToSet(d.expire_queue) = d.rbtree
      BY <1>1 DEF Cache, QueueOK
  <2>2. Len(d.expire_queue) \in DOMAIN d.expire_queue
      BY <2>1
  <2> QED
      BY <1>1, <2>1, <2>2 DEF Last, ToSet, Cache
<1>3. /\ EntryOK(d, i, h[i]) /\ HandlesOK(d, w) /\ f \in File
      /\ (f.fd # INVALID => d.open[f.fd] # 0)
    BY <1>1, <1>2 DEF CacheOK, HandlesOK, Cache
<1>4. e = IF f.err \/ f.is_dir THEN Free(o, i)
          ELSE ngx_close_cached_file([o EXCEPT !.file[i].close = TRUE], i, 0)
    BY DEF expire_last
<1> HIDE DEF i
<1>5. /\ r \in Cache
      /\ r.file = d.file /\ r.rbtree = d.rbtree /\ r.current = d.current
      /\ r.open = d.open /\ r.broken = d.broken
      /\ NoRepeat(r.expire_queue)
      /\ ToSet(r.expire_queue) = d.rbtree \ {i}
    BY <1>1, <1>2, RemoveFields
<1> HIDE DEF r
<1>6. /\ o \in Cache
      /\ o.file = d.file /\ o.rbtree = d.rbtree \ {i}
      /\ o.current = d.current - 1
      /\ o.open = d.open /\ ~o.broken
      /\ QueueOK(o)
  <2>1. i \in r.rbtree /\ r.current = Cardinality(r.rbtree)
      BY <1>1, <1>2, <1>5
  <2>2. /\ o \in Cache
        /\ o.file = r.file /\ o.rbtree = r.rbtree \ {i}
        /\ o.current = Cardinality(o.rbtree) /\ o.current = r.current - 1
        /\ o.open = r.open /\ o.broken = r.broken
        /\ o.expire_queue = r.expire_queue
      BY <1>5, <2>1, UnlinkFields
  <2> HIDE DEF o
  <2> QED
      BY <1>1, <1>5, <2>2 DEF QueueOK
<1> HIDE DEF o, f
<1>7. SUFFICES Out(d, e, i) /\ CacheOK(e, h, w) /\ Keeps(d, e, h)
    BY <1>2, <1>7, OutFacts DEF Out, Fewer, Cache
<1>8. CASE f.err \/ f.is_dir
  <2>1. h[i] = 0 /\ f.fd = INVALID
      BY <1>2, <1>3, <1>8 DEF EntryOK, f
  <2>2. e = [o EXCEPT !.file[i] = NoFile]
      BY <1>4, <1>8 DEF Free
  <2>3. /\ e \in Cache /\ e.file[i] = NoFile /\ \A j \in Ids \ {i} : e.file[j] = o.file[j]
        /\ e.rbtree = o.rbtree /\ e.current = o.current
        /\ e.expire_queue = o.expire_queue /\ e.broken = o.broken /\ e.open = o.open
      BY <1>2, <1>6, <2>2, NoFileType, SetFile
  <2>4. Out(d, e, i) /\ e.open = Closed(d.open, d.file[i].fd)
      BY <1>6, <2>1, <2>3 DEF Out, QueueOK, Closed, f
  <2> QED
      BY <1>2, <2>1, <2>3, <2>4, LeavesUnused
<1>9. CASE ~(f.err \/ f.is_dir)
  <2> DEFINE x == [o EXCEPT !.file[i].close = TRUE]
             g == [f EXCEPT !.close = TRUE]
  <2>1. e = ngx_close_cached_file(x, i, 0)
      BY <1>4, <1>9
  <2>2. g \in File /\ Same(f, g) /\ g.close = TRUE
      BY <1>3 DEF Same, File
  <2>3. x = [o EXCEPT !.file[i] = g]
      BY <1>6 DEF f
  <2> HIDE DEF x, g
  <2>4. /\ x \in Cache /\ x.file[i] = g /\ \A j \in Ids \ {i} : x.file[j] = o.file[j]
        /\ x.rbtree = o.rbtree /\ x.current = o.current
        /\ x.expire_queue = o.expire_queue /\ x.broken = o.broken /\ x.open = o.open
      BY <1>2, <1>6, <2>2, <2>3, SetFile
  <2>5. Out(d, x, i) /\ Same(d.file[i], x.file[i]) /\ x.open = d.open
      BY <1>6, <2>2, <2>4 DEF Out, QueueOK, f
  <2>6. x.file[i].count = h[i] /\ x.file[i].close = TRUE /\ x.file[i].fd = f.fd
      BY <1>3, <2>2, <2>4 DEF Same, EntryOK, f
  <2>7. CASE h[i] # 0
    <3>1. e = x
        BY <2>1, <2>6, <2>7, CloseInUse
    <3>2. h[i] > 0
        BY <1>2, <2>7
    <3> QED
        BY <1>2, <2>5, <2>6, <3>1, <3>2, LeavesInUse
  <2>8. CASE h[i] = 0
    <3>1. x.file[i].fd # INVALID => x.open[x.file[i].fd] # 0
        BY <1>3, <2>5, <2>6
    <3>2. Freed(x, e, i)
        BY <1>2, <2>1, <2>4, <2>6, <2>8, <3>1, CloseUnused
    <3>3. Out(d, e, i) /\ e.file[i] = NoFile /\ e.open = Closed(d.open, d.file[i].fd)
        BY <2>5, <2>6, <3>2 DEF Freed, Out, QueueOK, f
    <3> QED
        BY <1>2, <2>8, <3>3, LeavesUnused
  <2> QED
      BY <2>7, <2>8
<1> QED
    BY <1>8, <1>9

\* Dropping entries is transitive, and frees room if there is something to drop.
LEMMA KeepsTrans ==
    ASSUME NEW a, NEW b, NEW e, NEW h, Keeps(a, b, h), Keeps(b, e, h)
    PROVE  Keeps(a, e, h)
    BY DEF Keeps

\* Losing entries twice is losing entries.
LEMMA FewerTrans ==
    ASSUME NEW a, NEW b, NEW e, Fewer(a, b), Fewer(b, e)
    PROVE  Fewer(a, e)
    BY DEF Fewer

\* One round of the expiration loop keeps the cache consistent.
LEMMA ExpireOneOK ==
    ASSUME NEW d, NEW h \in [Ids -> Nat], NEW w, CacheOK(d, h, w), NEW e, e = expire_one(d)
    PROVE  /\ CacheOK(e, h, w) /\ Keeps(d, e, h) /\ Fewer(d, e) /\ e.current <= d.current
           /\ d.current > 0 => e.current < d.current
<1>1. CASE d.expire_queue = <<>>
  <2>1. e = d
      BY <1>1 DEF expire_one
  <2>2. d.rbtree = {} /\ d.current = Cardinality(d.rbtree)
      BY <1>1 DEF CacheOK, QueueOK, ToSet
  <2>3. d.current = 0
      BY <2>2, FS_EmptySet
  <2> QED
      BY <2>1, <2>3 DEF Keeps, Fewer
<1>2. CASE d.expire_queue # <<>>
  <2>1. e = expire_last(d)
      BY <1>2 DEF expire_one
  <2>2. CacheOK(e, h, w) /\ Keeps(d, e, h) /\ Fewer(d, e) /\ e.current < d.current
      BY <1>2, <2>1, ExpireLastOK
  <2>3. e.current \in Nat /\ d.current \in Nat
      BY <2>2 DEF CacheOK, Cache
  <2> QED
      BY <2>2, <2>3
<1> QED
    BY <1>1, <1>2

\* ngx_expire_old_cached_files keeps the cache consistent and, forced, makes room.
LEMMA ExpireOK ==
    ASSUME NEW d, NEW h \in [Ids -> Nat], NEW w, CacheOK(d, h, w), NEW k \in 0 .. 3,
           NEW e, e = ngx_expire_old_cached_files(d, k)
    PROVE  /\ CacheOK(e, h, w) /\ Keeps(d, e, h) /\ Fewer(d, e) /\ e.current <= d.current
           /\ k > 0 /\ d.current > 0 => e.current < d.current
<1> DEFINE a == IF k < 1 THEN d ELSE expire_one(d)
           b == IF k < 2 THEN a ELSE expire_one(a)
<1>1. e = IF k < 3 THEN b ELSE expire_one(b)
    BY DEF ngx_expire_old_cached_files
<1>2. d.current \in Nat
    BY DEF CacheOK, Cache
<1>3. /\ CacheOK(a, h, w) /\ Keeps(d, a, h) /\ Fewer(d, a) /\ a.current <= d.current
      /\ k > 0 /\ d.current > 0 => a.current < d.current
  <2>1. CASE k < 1
      BY <1>2, <2>1 DEF Keeps, Fewer
  <2>2. CASE ~(k < 1)
      BY <2>2, ExpireOneOK
  <2> QED
      BY <2>1, <2>2
<1> HIDE DEF a
<1>4. a.current \in Nat
    BY <1>3 DEF CacheOK, Cache
<1>5. CacheOK(b, h, w) /\ Keeps(a, b, h) /\ Fewer(a, b) /\ b.current <= a.current
  <2>1. CASE k < 2
      BY <1>3, <1>4, <2>1 DEF Keeps, Fewer
  <2>2. CASE ~(k < 2)
      BY <1>3, <2>2, ExpireOneOK
  <2> QED
      BY <2>1, <2>2
<1> HIDE DEF b
<1>6. b.current \in Nat
    BY <1>5 DEF CacheOK, Cache
<1>7. CacheOK(e, h, w) /\ Keeps(b, e, h) /\ Fewer(b, e) /\ e.current <= b.current
  <2>1. CASE k < 3
      BY <1>1, <1>5, <1>6, <2>1 DEF Keeps, Fewer
  <2>2. CASE ~(k < 3)
      BY <1>1, <1>5, <2>2, ExpireOneOK
  <2> QED
      BY <2>1, <2>2
<1>8. e.current \in Nat
    BY <1>7 DEF CacheOK, Cache
<1>9. Keeps(d, e, h)
    BY <1>3, <1>5, <1>7, KeepsTrans
<1>10. Fewer(d, e)
    BY <1>3, <1>5, <1>7, FewerTrans
<1> QED
    BY <1>2, <1>3, <1>4, <1>5, <1>6, <1>7, <1>8, <1>9, <1>10
-----------------------------------------------------------------------------
(* ngx_save_open_file_to_cache *)

\* The result of a thread, with a handle that is among those of the requests.
Given(d, of, v) ==
    /\ of \in OpenFileInfo /\ ResultOK(of) /\ ~of.special
    /\ of.fd # INVALID => of.fd \in v /\ d.open[of.fd] = of.uniq

\* The hold of the request that saves: its file is held once more.
Plus(h, i) == IF i = None THEN h ELSE [h EXCEPT ![i] = @ + 1]

\* What saving in cache d has to return when the other requests hold h and own w.
SaveOK(d, s, h, w) ==
    /\ s.file \in Ids \cup {None}
    /\ CacheOK(s.c, Plus(h, s.file), w)
    /\ Keeps(d, s.c, h)
    /\ s.of \in OpenFileInfo /\ ~s.of.special
    /\ s.of.ok /\ ~s.of.is_dir <=> s.file # None
    /\ s.file # None => /\ s.of.fd = s.c.file[s.file].fd
                        /\ s.of.uniq = s.c.file[s.file].uniq

\* What a request brings to the save stays valid over a step that keeps the held entries.
LEMMA GivenKept ==
    ASSUME NEW d, NEW e, NEW h, NEW g, NEW v, NEW of, Given(d, of, v), Keeps(d, e, h),
           CacheOK(e, g, v)
    PROVE  Given(e, of, v)
    BY DEF Given, Keeps, CacheOK, HandlesOK

\* A save that is right after such a step is right from before it.
LEMMA SaveKept ==
    ASSUME NEW d, NEW e, NEW h, NEW w, NEW s, Keeps(d, e, h), SaveOK(e, s, h, w)
    PROVE  SaveOK(d, s, h, w)
    BY KeepsTrans DEF SaveOK

\* failed:, without an entry
LEMMA FailedNone ==
    ASSUME NEW d, NEW h, NEW v, CacheOK(d, h, v), NEW of, Given(d, of, v),
           NEW s, s = save_failed(d, None, of)
    PROVE  SaveOK(d, s, h, v \ {of.fd})
<1>1. s.c = CloseOwn(d, of) /\ s.of = [of EXCEPT !.ok = FALSE] /\ s.file = None
    BY DEF save_failed
<1>2. CacheOK(s.c, h, v \ {of.fd}) /\ Keeps(d, s.c, h)
    BY <1>1, CloseOwnOK DEF Given
<1>3. s.of \in OpenFileInfo /\ ~s.of.special /\ ~s.of.ok
    BY <1>1 DEF Given, OpenFileInfo
<1> QED
    BY <1>1, <1>2, <1>3 DEF SaveOK, Plus

\* Entry i is taken out of the queue.
Taken(d, e, i) ==
    /\ e \in Cache /\ ~e.broken
    /\ e.rbtree = d.rbtree /\ e.current = d.current /\ e.open = d.open
    /\ NoRepeat(e.expire_queue) /\ ToSet(e.expire_queue) = d.rbtree \ {i}
    /\ \A j \in Ids \ {i} : e.file[j] = d.file[j]
    /\ Same(d.file[i], e.file[i]) /\ e.file[i].close = d.file[i].close

\* Unlinking a queued-out entry takes it out of both structures.
LEMMA TakenOut ==
    ASSUME NEW d, NEW h, NEW w, CacheOK(d, h, w), NEW i \in d.rbtree, NEW e, Taken(d, e, i),
           NEW x, x = rbtree_delete(e, i)
    PROVE  Out(d, x, i) /\ x.file = e.file /\ x.open = d.open
<1>1. e \in Cache /\ i \in e.rbtree /\ e.current = Cardinality(e.rbtree)
    BY DEF Taken, CacheOK
<1>2. /\ x \in Cache
      /\ x.file = e.file /\ x.rbtree = e.rbtree \ {i}
      /\ x.current = Cardinality(x.rbtree) /\ x.current = e.current - 1
      /\ x.open = e.open /\ x.broken = e.broken
      /\ x.expire_queue = e.expire_queue
    BY <1>1, UnlinkFields
<1> QED
    BY <1>2 DEF Taken, Out, QueueOK

\* failed:, with an entry that was taken out of the queue
LEMMA FailedEntry ==
    ASSUME NEW d, NEW h \in [Ids -> Nat], NEW v, CacheOK(d, h, v), NEW of, Given(d, of, v),
           NEW i \in d.rbtree, NEW e, Taken(d, e, i), NEW s, s = save_failed(e, i, of)
    PROVE  SaveOK(d, s, h, v \ {of.fd})
<1> DEFINE o == rbtree_delete(e, i)
           f == e.file[i]
           x == IF f.count # 0 THEN [o EXCEPT !.file[i].close = TRUE]
                ELSE IF f.fd # INVALID THEN Free(ngx_close_file(o, f.fd), i)
                ELSE Free(o, i)
<1>1. i \in Ids /\ i # None
    BY NoneFacts DEF CacheOK, Cache
<1>2. s.c = CloseOwn(x, of) /\ s.of = [of EXCEPT !.ok = FALSE] /\ s.file = None
    BY <1>1 DEF save_failed
<1>3. Out(d, o, i) /\ o.file = e.file /\ o.open = d.open
    BY TakenOut
<1> HIDE DEF o
<1>4. /\ EntryOK(d, i, h[i]) /\ HandlesOK(d, v) /\ f \in File
      /\ Same(d.file[i], f) /\ o \in Cache
    BY <1>1, <1>3 DEF CacheOK, Taken, Same, Out
<1>5. f.count = h[i] /\ f.fd = d.file[i].fd /\ (f.fd # INVALID => f.fd \in Fds /\ o.open[f.fd] # 0)
    BY <1>1, <1>3, <1>4 DEF EntryOK, HandlesOK, Same, File
<1>6. CacheOK(x, h, v) /\ Keeps(d, x, h)
  <2>1. CASE f.count # 0
    <3> DEFINE g == [f EXCEPT !.close = TRUE]
    <3>1. g \in File /\ Same(f, g) /\ g.close = TRUE
        BY <1>4 DEF Same, File
    <3>2. x = [o EXCEPT !.file[i] = g]
        BY <1>3, <2>1
    <3> HIDE DEF x, g
    <3>3. /\ x \in Cache /\ x.file[i] = g /\ \A j \in Ids \ {i} : x.file[j] = o.file[j]
          /\ x.rbtree = o.rbtree /\ x.current = o.current
          /\ x.expire_queue = o.expire_queue /\ x.broken = o.broken /\ x.open = o.open
        BY <1>1, <1>4, <3>1, <3>2, SetFile
    <3>4. Out(d, x, i) /\ x.open = d.open /\ x.file[i].close = TRUE
        BY <1>3, <3>1, <3>3 DEF Out, QueueOK
    <3>5. Same(d.file[i], x.file[i])
        BY <1>4, <3>1, <3>3 DEF Same
    <3>6. h[i] > 0
        BY <1>1, <1>5, <2>1
    <3> QED
        BY <3>4, <3>5, <3>6, LeavesInUse
  <2>2. CASE f.count = 0
    <3> DEFINE m == IF f.fd # INVALID THEN ngx_close_file(o, f.fd) ELSE o
    <3>1. x = [m EXCEPT !.file[i] = NoFile]
        BY <2>2 DEF Free
    <3>2. /\ m \in Cache /\ m.file = o.file /\ m.rbtree = o.rbtree /\ m.current = o.current
          /\ m.expire_queue = o.expire_queue /\ m.broken = o.broken
          /\ m.open = Closed(o.open, f.fd)
      <4>1. CASE f.fd # INVALID
          BY <1>4, <1>5, <4>1, CloseFields
      <4>2. CASE f.fd = INVALID
          BY <1>4, <4>2 DEF Closed
      <4> QED
          BY <4>1, <4>2
    <3> HIDE DEF x, m
    <3>3. /\ x \in Cache /\ x.file[i] = NoFile /\ \A j \in Ids \ {i} : x.file[j] = m.file[j]
          /\ x.rbtree = m.rbtree /\ x.current = m.current
          /\ x.expire_queue = m.expire_queue /\ x.broken = m.broken /\ x.open = m.open
        BY <1>1, <3>1, <3>2, NoFileType, SetFile
    <3>4. Out(d, x, i) /\ x.open = Closed(d.open, d.file[i].fd)
        BY <1>3, <1>5, <3>2, <3>3 DEF Out, QueueOK
    <3>5. h[i] = 0
        BY <1>5, <2>2
    <3> QED
        BY <3>3, <3>4, <3>5, LeavesUnused
  <2> QED
      BY <2>1, <2>2
<1> HIDE DEF x
<1>7. Given(x, of, v)
    BY <1>6, GivenKept
<1>8. CacheOK(s.c, h, v \ {of.fd}) /\ Keeps(x, s.c, h)
    BY <1>2, <1>6, <1>7, CloseOwnOK DEF Given
<1>9. s.of \in OpenFileInfo /\ ~s.of.special /\ ~s.of.ok
    BY <1>2 DEF Given, OpenFileInfo
<1>10. Keeps(d, s.c, h)
    BY <1>6, <1>8, KeepsTrans
<1> QED
    BY <1>2, <1>8, <1>9, <1>10 DEF SaveOK, Plus
\* In k, entry i is linked but not queued, for a name that no other entry has, and
\* its old handle, if it had one, is closed: it takes the result of the thread.
Slot(d, k, i) ==
    /\ k \in Cache /\ ~k.broken
    /\ NoRepeat(k.expire_queue) /\ ToSet(k.expire_queue) = k.rbtree \ {i}
    /\ k.rbtree = d.rbtree \cup {i}
    /\ k.current = Cardinality(k.rbtree) /\ k.current <= MaxFiles
    /\ \A j \in Ids \ {i} : k.file[j] = d.file[j]
    /\ \A j \in d.rbtree \ {i} : d.file[j].name # k.file[i].name
    /\ k.file[i].live = TRUE /\ k.file[i].close = FALSE /\ k.file[i].count = 0
    /\ k.file[i].special = FALSE
    /\ k.open = Closed(d.open, d.file[i].fd)

\* The entry after update:
Updated(f, of) ==
    LET g == [f EXCEPT !.fd = of.fd, !.err = of.err, !.fresh = TRUE]
    IN IF of.err THEN g
       ELSE [g EXCEPT !.uniq = of.uniq, !.is_dir = of.is_dir,
                      !.special = of.special, !.count = @ + NewUsers(of)]

\* The fields that the update label writes.
LEMMA UpdatedFacts ==
    ASSUME NEW f \in File, NEW of \in OpenFileInfo, NEW g, g = Updated(f, of)
    PROVE  /\ g \in File /\ g.live = f.live /\ g.name = f.name /\ g.close = f.close
           /\ g.fd = of.fd /\ g.err = of.err
           /\ of.err => g.count = f.count /\ g.special = f.special /\ g.is_dir = f.is_dir
           /\ ~of.err => /\ g.uniq = of.uniq /\ g.is_dir = of.is_dir /\ g.special = of.special
                         /\ g.count = f.count + NewUsers(of)
<1> DEFINE a == [f EXCEPT !.fd = of.fd, !.err = of.err, !.fresh = TRUE]
<1>1. /\ a \in File /\ a.live = f.live /\ a.name = f.name /\ a.close = f.close
      /\ a.fd = of.fd /\ a.err = of.err /\ a.count = f.count
      /\ a.special = f.special /\ a.is_dir = f.is_dir
    BY DEF File, OpenFileInfo
<1>2. g = IF of.err THEN a
          ELSE [a EXCEPT !.uniq = of.uniq, !.is_dir = of.is_dir,
                         !.special = of.special, !.count = @ + NewUsers(of)]
    BY DEF Updated
<1> HIDE DEF a
<1>3. CASE of.err
    BY <1>1, <1>2, <1>3
<1>4. CASE ~of.err
  <2> DEFINE n == NewUsers(of)
  <2>1. n \in Nat
      BY DEF NewUsers
  <2> HIDE DEF n
  <2>2. g = [a EXCEPT !.uniq = of.uniq, !.is_dir = of.is_dir,
                      !.special = of.special, !.count = a.count + n]
      BY <1>2, <1>4 DEF n
  <2>3. /\ of.uniq \in Uniqs /\ of.is_dir \in BOOLEAN /\ of.special \in BOOLEAN
        /\ a.count + n \in Nat
      BY <1>1, <2>1 DEF File, OpenFileInfo
  <2>4. g \in File
      BY <1>1, <2>2, <2>3 DEF File
  <2>5. /\ g.live = a.live /\ g.name = a.name /\ g.close = a.close /\ g.fd = a.fd
        /\ g.err = a.err /\ g.uniq = of.uniq /\ g.is_dir = of.is_dir
        /\ g.special = of.special /\ g.count = a.count + n
      BY <1>1, <2>2 DEF File
  <2> QED
      BY <1>1, <1>4, <2>4, <2>5 DEF n
<1> QED
    BY <1>3, <1>4

\* The update label on a slot that nobody holds keeps the cache consistent.
LEMMA UpdateSlot ==
    ASSUME NEW d, NEW h \in [Ids -> Nat], NEW v, CacheOK(d, h, v), NEW of, Given(d, of, v),
           ~Failing(of), NEW i \in Ids, h[i] = 0, NEW k, Slot(d, k, i),
           NEW s, s = save_update(k, i, of)
    PROVE  SaveOK(d, s, h, v \ {of.fd})
<1> DEFINE f == k.file[i]
           g == Updated(f, of)
           a == [k EXCEPT !.file[i] = g]
           e == queue_insert_head(a, i)
           t == IF of.err \/ of.is_dir THEN None ELSE i
<1>1. k \in Cache /\ f \in File /\ of \in OpenFileInfo /\ ResultOK(of) /\ d \in Cache
    BY DEF Slot, Cache, Given, CacheOK
<1>2. /\ g \in File /\ g.live = f.live /\ g.name = f.name /\ g.close = f.close
      /\ g.fd = of.fd /\ g.err = of.err
      /\ of.err => g.count = f.count /\ g.special = f.special /\ g.is_dir = f.is_dir
      /\ ~of.err => /\ g.uniq = of.uniq /\ g.is_dir = of.is_dir /\ g.special = of.special
                    /\ g.count = f.count + NewUsers(of)
    BY <1>1, UpdatedFacts
<1>3. s = save_found(a, i, of)
    BY DEF save_update, Updated
<1> HIDE DEF g
<1>4. /\ a \in Cache /\ a.file[i] = g /\ \A j \in Ids \ {i} : a.file[j] = k.file[j]
      /\ a.rbtree = k.rbtree /\ a.current = k.current
      /\ a.expire_queue = k.expire_queue /\ a.broken = k.broken /\ a.open = k.open
    BY <1>1, <1>2, SetFile
<1> HIDE DEF a
<1>5. s.c = e /\ s.of = [of EXCEPT !.ok = ~of.err] /\ s.file = t
    BY <1>2, <1>3, <1>4 DEF save_found, Slot
<1>6. /\ e \in Cache
      /\ e.file = a.file /\ e.rbtree = a.rbtree /\ e.current = a.current
      /\ e.open = a.open /\ e.broken = a.broken
      /\ NoRepeat(e.expire_queue)
      /\ ToSet(e.expire_queue) = ToSet(a.expire_queue) \cup {i}
  <2>1. NoRepeat(a.expire_queue) /\ i \notin ToSet(a.expire_queue)
      BY <1>4 DEF Slot
  <2> QED
      BY <1>4, <2>1, InsertFields
<1> HIDE DEF e
<1>7. QueueOK(e)
    BY <1>4, <1>6 DEF QueueOK, Slot
<1>8. Others(d, e, i) /\ e.file[i] = g /\ i \in e.rbtree
    BY <1>4, <1>6 DEF Others, Slot
<1>9. /\ of.ok \/ of.err
      /\ of.err \/ of.is_dir => of.fd = INVALID
      /\ ~of.err /\ ~of.is_dir => of.fd # INVALID /\ of.fd \in v /\ d.open[of.fd] = of.uniq
    BY <1>1 DEF Failing, Given, ResultOK
<1>10. EntryOK(d, i, h[i]) /\ HandlesOK(d, v) /\ d.file[i].fd \in Fds \cup {INVALID}
    BY <1>1 DEF CacheOK, Cache, File
<1> DEFINE m == [k EXCEPT !.file[i] = NoFile]
<1>11. HandlesOK(m, v) /\ m.file[i].fd = INVALID /\ Others(d, m, i) /\ m.open = k.open
  <2>1. /\ m \in Cache /\ m.file[i] = NoFile /\ \A j \in Ids \ {i} : m.file[j] = k.file[j]
        /\ m.rbtree = k.rbtree /\ m.current = k.current
        /\ m.expire_queue = k.expire_queue /\ m.broken = k.broken /\ m.open = k.open
      BY <1>1, NoFileType, SetFile
  <2> HIDE DEF m
  <2>2. Others(d, m, i) /\ m.file[i].fd = INVALID /\ m.open = Closed(d.open, d.file[i].fd)
      BY <2>1 DEF Others, Slot, NoFile
  <2>3. CASE d.file[i].fd = INVALID
    <3>1. m.open = d.open
        BY <2>2, <2>3 DEF Closed
    <3> QED
        BY <1>10, <2>1, <2>2, <2>3, <3>1, HandleNone
  <2>4. CASE d.file[i].fd \in Fds
      BY <1>1, <1>10, <2>1, <2>2, <2>4, HandleClosed
  <2> QED
      BY <1>10, <2>3, <2>4
<1> HIDE DEF m
<1>12. Others(m, e, i) /\ e.open = m.open
    BY <1>4, <1>6, <1>8, <1>11 DEF Others
<1>13. HandlesOK(e, v \ {of.fd})
  <2>1. CASE of.err \/ of.is_dir
    <3>1. of.fd = INVALID /\ e.file[i].fd = INVALID
        BY <1>2, <1>8, <1>9, <2>1
    <3>2. v \ {of.fd} = v
        BY <1>10, <3>1, NoneFacts DEF HandlesOK
    <3> QED
        BY <1>11, <1>12, <3>1, <3>2, HandleNone
  <2>2. CASE ~(of.err \/ of.is_dir)
    <3>1. /\ of.fd \in v /\ e.file[i].fd = of.fd /\ e.file[i].uniq = d.open[of.fd]
        BY <1>2, <1>8, <1>9, <2>2
    <3>2. m.open[of.fd] = d.open[of.fd]
      <4>1. m.open[of.fd] # 0
          BY <1>11, <3>1 DEF HandlesOK
      <4>2. of.fd \in Fds /\ m.open = Closed(d.open, d.file[i].fd)
          BY <1>10, <1>11, <3>1 DEF HandlesOK, Slot
      <4> QED
          BY <1>1, <1>10, <4>1, <4>2 DEF Closed, Cache
    <3> QED
        BY <1>11, <1>12, <3>1, <3>2, HandleGiven
  <2> QED
      BY <2>1, <2>2
<1> DEFINE p == Plus(h, t)
<1>14. /\ p[i] = IF t = None THEN 0 ELSE 1
       /\ \A j \in Ids \ {i} : p[j] = h[j]
    BY NoneFacts DEF Plus
<1>15. /\ f.count = 0 /\ f.live = TRUE /\ f.close = FALSE /\ f.special = FALSE
       /\ \A j \in d.rbtree \ {i} : d.file[j].name # f.name
    BY DEF Slot
<1>16. g.count = p[i]
  <2>1. CASE of.err
      BY <1>2, <1>14, <1>15, <2>1
  <2>2. CASE ~of.err /\ of.is_dir
    <3>1. NewUsers(of) = 0
        BY <2>2 DEF NewUsers
    <3>2. p[i] = 0
        BY <1>14, <2>2
    <3>3. g.count = f.count + NewUsers(of)
        BY <1>2, <2>2, Zenon
    <3> QED
        BY <1>15, <3>1, <3>2, <3>3
  <2>3. CASE ~of.err /\ ~of.is_dir
    <3>1. NewUsers(of) = 1 /\ p[i] = 1
        BY <1>14, <2>3, NoneFacts DEF NewUsers
    <3> QED
        BY <1>2, <1>15, <2>3, <3>1
  <2> QED
      BY <2>1, <2>2, <2>3
<1>17. p[i] > 0 => ~of.err /\ ~of.is_dir
    BY <1>14
<1> HIDE DEF p, t, f
<1>18. EntryOK(e, i, p[i])
  <2>1. ~g.special
      BY <1>2, <1>15 DEF Given
  <2>2. p[i] > 0 => ~g.is_dir /\ ~g.err /\ g.fd # INVALID
      BY <1>2, <1>9, <1>17
  <2>3. g.err \/ g.is_dir => g.fd = INVALID
      BY <1>2, <1>9
  <2> QED
      BY <1>2, <1>8, <1>15, <1>16, <2>1, <2>2, <2>3 DEF EntryOK
<1>19. \A j \in e.rbtree \ {i} : e.file[j].name # e.file[i].name
  <2> SUFFICES ASSUME NEW j \in e.rbtree \ {i} PROVE e.file[j].name # e.file[i].name
      OBVIOUS
  <2>1. j \in d.rbtree \ {i} /\ j \in Ids
      BY <1>6, <1>8 DEF Others, Cache
  <2>2. e.file[j] = d.file[j]
      BY <1>8, <2>1 DEF Others
  <2> QED
      BY <1>2, <1>8, <1>15, <2>1, <2>2
<1>20. CacheOK(e, p, v \ {of.fd})
  <2>1. ~e.broken /\ e.current = Cardinality(e.rbtree) /\ e.current <= MaxFiles
      BY <1>4, <1>6 DEF Slot
  <2> QED
      BY <1>6, <1>7, <1>8, <1>13, <1>14, <1>18, <1>19, <2>1, OneEntry
<1>21. Keeps(d, e, h)
  <2>1. \A fd \in Fds : e.open[fd] = 0 \/ e.open[fd] = d.open[fd]
      BY <1>1, <1>4, <1>6, <1>10 DEF Slot, Closed, Cache
  <2> QED
      BY <1>8, <2>1 DEF Keeps, Others
<1>22. s.of \in OpenFileInfo /\ ~s.of.special /\ s.of.ok = ~of.err /\ s.of.is_dir = of.is_dir
       /\ s.of.fd = of.fd /\ s.of.uniq = of.uniq
    BY <1>1, <1>5 DEF Given, OpenFileInfo
<1>23. /\ s.file \in Ids \cup {None} /\ (s.of.ok /\ ~s.of.is_dir <=> s.file # None)
       /\ s.file # None => s.file = i /\ ~of.err
    BY <1>5, <1>22, NoneFacts DEF t
<1>24. s.file # None => s.of.fd = s.c.file[s.file].fd /\ s.of.uniq = s.c.file[s.file].uniq
    BY <1>2, <1>5, <1>8, <1>22, <1>23
<1> QED
    BY <1>5, <1>20, <1>21, <1>22, <1>23, <1>24 DEF SaveOK, p

\* What closing the request's own handle changes.
LEMMA CloseOwnFields ==
    ASSUME NEW d \in Cache, NEW of, of.fd # INVALID => of.fd \in Fds /\ d.open[of.fd] # 0,
           NEW e, e = CloseOwn(d, of)
    PROVE  /\ e \in Cache
           /\ e.file = d.file /\ e.rbtree = d.rbtree /\ e.current = d.current
           /\ e.expire_queue = d.expire_queue /\ e.broken = d.broken
           /\ e.open = Closed(d.open, of.fd)
<1>1. CASE of.fd = INVALID
    BY <1>1 DEF CloseOwn, Closed
<1>2. CASE of.fd # INVALID
    BY <1>2, CloseFields DEF CloseOwn
<1> QED
    BY <1>1, <1>2

\* The cache has the file: its handle is used and that of the request is closed.
LEMMA HitEntry ==
    ASSUME NEW d, NEW h \in [Ids -> Nat], NEW v, CacheOK(d, h, v), NEW of, Given(d, of, v),
           NEW i \in d.rbtree, NEW e, Taken(d, e, i), ~NotKept(d.file[i]),
           NEW s, s = save_hit(e, i, of)
    PROVE  SaveOK(d, s, h, v \ {of.fd})
<1> DEFINE f == e.file[i]
           o == CloseOwn(e, of)
           g == [f EXCEPT !.count = IF f.err \/ f.is_dir THEN @ ELSE @ + 1]
           u == [o EXCEPT !.file[i].count = IF f.err \/ f.is_dir THEN @ ELSE @ + 1]
           x == queue_insert_head(u, i)
           info == IF f.err THEN [of EXCEPT !.fd = INVALID, !.err = TRUE]
                   ELSE [of EXCEPT !.fd = f.fd, !.uniq = f.uniq, !.err = FALSE,
                                   !.is_dir = f.is_dir, !.special = f.special]
           t == IF f.err \/ f.is_dir THEN None ELSE i
<1>1. /\ i \in Ids /\ d \in Cache /\ e \in Cache /\ f \in File /\ Same(d.file[i], f)
      /\ EntryOK(d, i, h[i]) /\ HandlesOK(d, v) /\ of \in OpenFileInfo
    BY DEF CacheOK, Taken, Cache, Given
<1>2. /\ f.live = TRUE /\ f.close = FALSE /\ f.special = FALSE /\ f.count = h[i]
      /\ f.err \/ f.is_dir => f.fd = INVALID /\ h[i] = 0
      /\ ~(f.err \/ f.is_dir) => f.fd # INVALID
      /\ f.fd = d.file[i].fd /\ f.uniq = d.file[i].uniq /\ f.name = d.file[i].name
    BY <1>1 DEF EntryOK, Same, Taken, NotKept, File
<1>3. s = save_found(u, i, info)
    BY DEF save_hit
<1>4. /\ o \in Cache
      /\ o.file = e.file /\ o.rbtree = e.rbtree /\ o.current = e.current
      /\ o.expire_queue = e.expire_queue /\ o.broken = e.broken
      /\ o.open = Closed(e.open, of.fd)
  <2>1. of.fd # INVALID => of.fd \in Fds /\ e.open[of.fd] # 0
      BY <1>1 DEF Given, HandlesOK, Taken
  <2> QED
      BY <1>1, <2>1, CloseOwnFields
<1>5. /\ g \in File /\ g.count = IF t = None THEN h[i] ELSE h[i] + 1
      /\ g.live = TRUE /\ g.close = FALSE /\ g.special = FALSE /\ g.fd = f.fd
      /\ g.uniq = f.uniq /\ g.name = f.name /\ g.err = f.err /\ g.is_dir = f.is_dir
    BY <1>1, <1>2, NoneFacts DEF File
<1> HIDE DEF o
<1>6. u = [o EXCEPT !.file[i] = g]
    BY <1>4
<1> HIDE DEF g, u
<1>7. /\ u \in Cache /\ u.file[i] = g /\ \A j \in Ids \ {i} : u.file[j] = o.file[j]
      /\ u.rbtree = o.rbtree /\ u.current = o.current
      /\ u.expire_queue = o.expire_queue /\ u.broken = o.broken /\ u.open = o.open
    BY <1>1, <1>4, <1>5, <1>6, SetFile
<1>8. s.c = x /\ s.of = [info EXCEPT !.ok = ~info.err]
      /\ s.file = IF info.err \/ info.is_dir THEN None ELSE i
    BY <1>3, <1>5, <1>7 DEF save_found
<1>9. /\ x \in Cache
      /\ x.file = u.file /\ x.rbtree = u.rbtree /\ x.current = u.current
      /\ x.open = u.open /\ x.broken = u.broken
      /\ NoRepeat(x.expire_queue)
      /\ ToSet(x.expire_queue) = ToSet(u.expire_queue) \cup {i}
  <2>1. NoRepeat(u.expire_queue) /\ i \notin ToSet(u.expire_queue)
      BY <1>4, <1>7 DEF Taken
  <2> QED
      BY <1>1, <1>7, <2>1, InsertFields
<1> HIDE DEF x
<1>10. QueueOK(x) /\ Others(d, x, i) /\ x.file[i] = g /\ x.rbtree = d.rbtree
       /\ x.current = d.current /\ ~x.broken /\ x.open = Closed(d.open, of.fd)
    BY <1>4, <1>7, <1>9 DEF QueueOK, Taken, Others
<1>11. HandlesOK(x, v \ {of.fd})
  <2>1. \A j \in Ids : x.file[j].fd = d.file[j].fd /\ x.file[j].uniq = d.file[j].uniq
      BY <1>2, <1>5, <1>10 DEF Others
  <2>2. CASE of.fd = INVALID
    <3>1. x.open = d.open /\ v \ {of.fd} = v
        BY <1>1, <1>10, <2>2, NoneFacts DEF Closed, HandlesOK
    <3> QED
        BY <1>1, <1>10, <2>1, <3>1, HandleKept
  <2>3. CASE of.fd # INVALID
    <3>1. of.fd \in v
        BY <2>3 DEF Given
    <3> QED
        BY <1>1, <1>10, <2>1, <3>1, HandleDropped
  <2> QED
      BY <2>2, <2>3
<1> DEFINE p == Plus(h, t)
<1>12. p[i] = (IF t = None THEN h[i] ELSE h[i] + 1) /\ \A j \in Ids \ {i} : p[j] = h[j]
    BY <1>1, NoneFacts DEF Plus
<1>13. h[i] \in Nat /\ (t # None <=> ~(f.err \/ f.is_dir)) /\ (t = None \/ t = i)
    BY <1>1, NoneFacts
<1> HIDE DEF p, t, f
<1>14. EntryOK(x, i, p[i])
    BY <1>2, <1>5, <1>10, <1>12, <1>13 DEF EntryOK
<1>15. \A j \in x.rbtree \ {i} : x.file[j].name # x.file[i].name
  <2> SUFFICES ASSUME NEW j \in d.rbtree \ {i} PROVE x.file[j].name # x.file[i].name
      BY <1>10
  <2>1. j \in Ids
      BY <1>1 DEF Cache
  <2>2. x.file[j].name = d.file[j].name /\ x.file[i].name = d.file[i].name
      BY <1>2, <1>5, <1>10, <2>1 DEF Others
  <2> QED
      BY <2>2 DEF CacheOK, NamesUnique
<1>16. CacheOK(x, p, v \ {of.fd})
  <2>1. x.current = Cardinality(x.rbtree) /\ x.current <= MaxFiles
      BY <1>10 DEF CacheOK
  <2> QED
      BY <1>1, <1>9, <1>10, <1>11, <1>12, <1>14, <1>15, <2>1, OneEntry
<1>17. Keeps(d, x, h)
  <2>1. \A fd \in Fds : x.open[fd] = 0 \/ x.open[fd] = d.open[fd]
      BY <1>1, <1>10 DEF Closed, Cache
  <2> QED
      BY <1>2, <1>5, <1>10, <2>1 DEF Keeps, Others
<1>18. /\ info \in OpenFileInfo /\ ~info.special /\ info.err = f.err
       /\ ~f.err => info.is_dir = f.is_dir /\ info.fd = f.fd /\ info.uniq = f.uniq
    BY <1>1, <1>2 DEF Given, OpenFileInfo, File, f
<1> HIDE DEF info
<1>19. /\ s.of \in OpenFileInfo /\ ~s.of.special /\ s.of.ok = ~info.err
       /\ s.of.is_dir = info.is_dir /\ s.of.fd = info.fd /\ s.of.uniq = info.uniq
    BY <1>8, <1>18 DEF OpenFileInfo
<1>20. f.err \in BOOLEAN /\ f.is_dir \in BOOLEAN
    BY <1>1 DEF File, f
<1>21. s.file = t /\ (s.of.ok /\ ~s.of.is_dir <=> s.file # None)
    BY <1>8, <1>13, <1>18, <1>19, <1>20, NoneFacts DEF t
<1>22. s.file # None => s.of.fd = s.c.file[s.file].fd /\ s.of.uniq = s.c.file[s.file].uniq
    BY <1>5, <1>8, <1>10, <1>13, <1>18, <1>19, <1>21
<1> QED
    BY <1>1, <1>8, <1>13, <1>16, <1>17, <1>19, <1>21, <1>22 DEF SaveOK, p
NoName(d, n) == \A j \in d.rbtree : d.file[j].name # n

\* The use counter stays below its bound.
LEMMA UsedType ==
    ASSUME NEW n \in 0 .. MinUses
    PROVE  Used(n) \in 0 .. MinUses
    BY OpenFileAssumption DEF Used

\* So does the first use.
LEMMA UsedFirst == Used(0) \in 0 .. MinUses
    BY OpenFileAssumption DEF Used

\* create:, for a name that the cache does not have
LEMMA CreateOK ==
    ASSUME NEW d, NEW h \in [Ids -> Nat], NEW v, CacheOK(d, h, v), NEW of, Given(d, of, v),
           ~Failing(of), NEW n \in Names, NoName(d, n), NEW choice \in SaveChoices,
           NEW s, s = save_create(d, n, of, choice)
    PROVE  SaveOK(d, s, h, v \ {of.fd})
<1> DEFINE room == IF AtLimit(d) THEN ngx_expire_old_cached_files(d, choice.drop) ELSE d
           free == {j \in Ids : ~room.file[j].live}
           i == CHOOSE j \in free : \A k \in free : j <= k
           new == [NoFile EXCEPT !.live = TRUE, !.name = n, !.uses = Used(0),
                                 !.is_dir = choice.junk]
           k == [room EXCEPT !.file[i] = new, !.rbtree = @ \cup {i}, !.current = @ + 1]
<1>1. choice.drop \in 1 .. 3 /\ choice.junk \in BOOLEAN /\ choice.alloc \in BOOLEAN
    BY DEF SaveChoices
<1>2. s = IF choice.alloc /\ free # {} THEN save_update(k, i, of)
          ELSE save_failed(room, None, of)
    BY DEF save_create
<1>3. /\ CacheOK(room, h, v) /\ Keeps(d, room, h) /\ Fewer(d, room)
      /\ room.current < MaxFiles
  <2>1. d.current \in Nat /\ MaxFiles \in Nat \ {0} /\ d.current <= MaxFiles
      BY OpenFileAssumption DEF CacheOK, Cache
  <2>2. CASE AtLimit(d)
    <3> DEFINE x == ngx_expire_old_cached_files(d, choice.drop)
    <3>1. choice.drop \in 0 .. 3 /\ choice.drop > 0 /\ d.current > 0 /\ d.current = MaxFiles
        BY <1>1, <2>1, <2>2 DEF AtLimit
    <3> HIDE DEF x
    <3>2. /\ CacheOK(x, h, v) /\ Keeps(d, x, h) /\ Fewer(d, x) /\ x.current < d.current
        BY <3>1, ExpireOK DEF x
    <3> QED
        BY <2>2, <3>1, <3>2 DEF x
  <2>3. CASE ~AtLimit(d)
      BY <2>1, <2>3 DEF AtLimit, Keeps, Fewer
  <2> QED
      BY <2>2, <2>3
<1> HIDE DEF room
<1>4. Given(room, of, v)
    BY <1>3, GivenKept
<1>5. NoName(room, n)
    BY <1>3 DEF Fewer, NoName
<1>6. CASE ~(choice.alloc /\ free # {})
  <2>1. SaveOK(room, s, h, v \ {of.fd})
      BY <1>2, <1>3, <1>4, <1>6, FailedNone
  <2> QED
      BY <1>3, <2>1, SaveKept
<1>7. CASE choice.alloc /\ free # {}
  <2>1. i \in free
    <3>1. free \in SUBSET Nat
        BY DEF Ids
    <3> HIDE DEF free
    <3> QED
        BY <1>7, <3>1, LeastElement
  <2> HIDE DEF i
  <2>2. i \in Ids /\ ~room.file[i].live /\ room \in Cache /\ EntryOK(room, i, h[i])
      BY <1>3, <2>1 DEF CacheOK
  <2>3. room.file[i] = NoFile /\ i \notin room.rbtree /\ h[i] = 0
      BY <2>2 DEF EntryOK, NoFile
  <2>4. /\ new \in File /\ new.live = TRUE /\ new.close = FALSE /\ new.count = 0
        /\ new.special = FALSE /\ new.name = n
    <3>1. /\ NoFile \in File /\ NoFile.close = FALSE /\ NoFile.count = 0
          /\ NoFile.special = FALSE
        BY NoFileType DEF NoFile
    <3> QED
        BY <1>1, <3>1, UsedFirst DEF File
  <2> HIDE DEF new
  <2>5. /\ k \in Cache /\ k.rbtree = room.rbtree \cup {i} /\ k.current = room.current + 1
        /\ k.expire_queue = room.expire_queue /\ k.broken = room.broken /\ k.open = room.open
        /\ k.file = [room.file EXCEPT ![i] = new]
    <3>1. k = [room EXCEPT !.file = [room.file EXCEPT ![i] = new],
                           !.rbtree = room.rbtree \cup {i}, !.current = room.current + 1]
        OBVIOUS
    <3>2. [room.file EXCEPT ![i] = new] \in [Ids -> File]
        BY <2>2, <2>4 DEF Cache
    <3> DEFINE ff == [room.file EXCEPT ![i] = new]
               rb == room.rbtree \cup {i}
               cu == room.current + 1
    <3>3. ff \in [Ids -> File] /\ rb \in SUBSET Ids /\ cu \in Nat
        BY <2>2, <3>2 DEF Cache
    <3>4. k = [room EXCEPT !.file = ff, !.rbtree = rb, !.current = cu]
        BY <3>1
    <3> HIDE DEF k, ff, rb, cu
    <3>5. /\ k \in Cache /\ k.rbtree = rb /\ k.current = cu /\ k.file = ff
          /\ k.expire_queue = room.expire_queue /\ k.broken = room.broken
          /\ k.open = room.open
        BY <2>2, <3>3, <3>4 DEF Cache
    <3> QED
        BY <3>5 DEF ff, rb, cu
  <2> HIDE DEF k
  <2>6. k.current = Cardinality(k.rbtree) /\ k.current <= MaxFiles
    <3>1. /\ room.rbtree \in SUBSET Ids /\ room.current = Cardinality(room.rbtree)
          /\ room.current \in Nat /\ MaxFiles \in Nat
        BY <1>3, OpenFileAssumption DEF CacheOK, Cache
    <3>2. Cardinality(room.rbtree \cup {i}) = room.current + 1
        BY <2>3, <3>1, IdsFinite, FS_AddElement
    <3> QED
        BY <1>3, <2>5, <3>1, <3>2
  <2>7. Slot(room, k, i)
    <3>1. k.file[i] = new /\ \A j \in Ids \ {i} : k.file[j] = room.file[j]
        BY <2>2, <2>5 DEF Cache
    <3>2. /\ NoRepeat(k.expire_queue) /\ ToSet(k.expire_queue) = k.rbtree \ {i}
          /\ ~k.broken
        BY <1>3, <2>3, <2>5 DEF CacheOK, QueueOK
    <3>3. k.open = Closed(room.open, room.file[i].fd)
        BY <2>3, <2>5 DEF Closed, NoFile
    <3>4. \A j \in room.rbtree \ {i} : room.file[j].name # k.file[i].name
        BY <1>5, <2>4, <3>1 DEF NoName
    <3> QED
        BY <2>4, <2>5, <2>6, <3>1, <3>2, <3>3, <3>4 DEF Slot
  <2>8. SaveOK(room, s, h, v \ {of.fd})
      BY <1>2, <1>3, <1>4, <1>7, <2>2, <2>3, <2>7, UpdateSlot
  <2> QED
      BY <1>3, <2>8, SaveKept
<1> QED
    BY <1>6, <1>7

\* The entry that the cache has for the name.
LEMMA EntryTaken ==
    ASSUME NEW d, NEW h \in [Ids -> Nat], NEW v, CacheOK(d, h, v), NEW i \in d.rbtree,
           NEW e, e = [queue_remove(d, i) EXCEPT !.file[i].uses = Used(@)]
    PROVE  Taken(d, e, i)
<1> DEFINE r == queue_remove(d, i)
           f == d.file[i]
           g == [f EXCEPT !.uses = Used(f.uses)]
<1>1. d \in Cache /\ QueueOK(d) /\ i \in Ids /\ f \in File /\ ~d.broken
    BY DEF CacheOK, Cache
<1>2. /\ r \in Cache
      /\ r.file = d.file /\ r.rbtree = d.rbtree /\ r.current = d.current
      /\ r.open = d.open /\ r.broken = d.broken
      /\ NoRepeat(r.expire_queue)
      /\ ToSet(r.expire_queue) = d.rbtree \ {i}
    BY <1>1, RemoveFields
<1> HIDE DEF r
<1>3. e = [r EXCEPT !.file[i] = g]
    BY <1>2 DEF r
<1>4. g \in File /\ Same(f, g) /\ g.close = f.close
  <2>1. Used(f.uses) \in 0 .. MinUses
      BY <1>1, UsedType DEF File
  <2> QED
      BY <1>1, <2>1 DEF File, Same
<1> HIDE DEF g
<1>5. /\ e \in Cache /\ e.file[i] = g /\ \A j \in Ids \ {i} : e.file[j] = r.file[j]
      /\ e.rbtree = r.rbtree /\ e.current = r.current
      /\ e.expire_queue = r.expire_queue /\ e.broken = r.broken /\ e.open = r.open
  <2> DEFINE y == [r EXCEPT !.file[i] = g]
  <2>1. /\ y \in Cache /\ y.file[i] = g /\ \A j \in Ids \ {i} : y.file[j] = r.file[j]
        /\ y.rbtree = r.rbtree /\ y.current = r.current
        /\ y.expire_queue = r.expire_queue /\ y.broken = r.broken /\ y.open = r.open
      BY <1>1, <1>2, <1>4, SetFile
  <2>2. e = y
      BY <1>3
  <2> HIDE DEF y
  <2> QED
      BY <2>1, <2>2
<1> QED
    BY <1>1, <1>2, <1>4, <1>5 DEF Taken

\* The handle of the entry, if it has one, is closed and the entry has no user.
LEMMA TakenSlot ==
    ASSUME NEW d, NEW h \in [Ids -> Nat], NEW v, CacheOK(d, h, v), NEW i \in d.rbtree,
           h[i] = 0, NEW e, Taken(d, e, i), NEW k,
           k = IF d.file[i].fd = INVALID THEN e ELSE ngx_close_file(e, d.file[i].fd)
    PROVE  Slot(d, k, i)
<1>1. /\ i \in Ids /\ e \in Cache /\ d.file[i].fd \in Fds \cup {INVALID}
      /\ EntryOK(d, i, h[i]) /\ HandlesOK(d, v)
    BY DEF CacheOK, Taken, Cache, File
<1>2. /\ k \in Cache /\ k.file = e.file /\ k.rbtree = e.rbtree /\ k.current = e.current
      /\ k.expire_queue = e.expire_queue /\ k.broken = e.broken
      /\ k.open = Closed(e.open, d.file[i].fd)
  <2>1. CASE d.file[i].fd = INVALID
      BY <1>1, <2>1 DEF Closed
  <2>2. CASE d.file[i].fd # INVALID
    <3>1. d.file[i].fd \in Fds /\ e.open[d.file[i].fd] # 0
        BY <1>1, <2>2 DEF HandlesOK, Taken
    <3> QED
        BY <1>1, <2>2, <3>1, CloseFields
  <2> QED
      BY <2>1, <2>2
<1>3. \A j \in d.rbtree \ {i} : d.file[j].name # k.file[i].name
    BY <1>2 DEF CacheOK, NamesUnique, Taken, Same
<1>4. /\ k.file[i].live = TRUE /\ k.file[i].close = FALSE /\ k.file[i].count = 0
      /\ k.file[i].special = FALSE
    BY <1>1, <1>2 DEF Taken, Same, EntryOK, File
<1>5. k.current = Cardinality(k.rbtree) /\ k.current <= MaxFiles
    BY <1>2 DEF Taken, CacheOK
<1> QED
    BY <1>2, <1>3, <1>4, <1>5, ZenonT(60) DEF Slot, Taken

\* The file changed while requests use the handle of its entry.
LEMMA ChangedInUse ==
    ASSUME NEW d, NEW h \in [Ids -> Nat], NEW v, CacheOK(d, h, v), NEW i \in d.rbtree,
           h[i] > 0, NEW e, Taken(d, e, i), NEW x,
           x = [rbtree_delete(e, i) EXCEPT !.file[i].close = TRUE]
    PROVE  CacheOK(x, h, v) /\ Keeps(d, x, h) /\ NoName(x, d.file[i].name)
<1> DEFINE o == rbtree_delete(e, i)
           f == e.file[i]
           g == [f EXCEPT !.close = TRUE]
<1>1. Out(d, o, i) /\ o.file = e.file /\ o.open = d.open
    BY TakenOut
<1>2. i \in Ids /\ o \in Cache /\ f \in File /\ Same(d.file[i], f)
    BY <1>1 DEF CacheOK, Cache, Out, Taken, Same
<1> HIDE DEF o
<1>3. x = [o EXCEPT !.file[i] = g]
    BY <1>1 DEF o
<1>4. g \in File /\ Same(f, g) /\ g.close = TRUE
    BY <1>2 DEF Same, File
<1> HIDE DEF g
<1>5. /\ x \in Cache /\ x.file[i] = g /\ \A j \in Ids \ {i} : x.file[j] = o.file[j]
      /\ x.rbtree = o.rbtree /\ x.current = o.current
      /\ x.expire_queue = o.expire_queue /\ x.broken = o.broken /\ x.open = o.open
  <2> DEFINE y == [o EXCEPT !.file[i] = g]
  <2>1. /\ y \in Cache /\ y.file[i] = g /\ \A j \in Ids \ {i} : y.file[j] = o.file[j]
        /\ y.rbtree = o.rbtree /\ y.current = o.current
        /\ y.expire_queue = o.expire_queue /\ y.broken = o.broken /\ y.open = o.open
      BY <1>2, <1>4, SetFile
  <2>2. x = y
      BY <1>3
  <2> HIDE DEF y
  <2> QED
      BY <2>1, <2>2
<1>6. Out(d, x, i) /\ x.open = d.open /\ x.file[i].close = TRUE
    BY <1>1, <1>4, <1>5 DEF Out, QueueOK
<1>7. Same(d.file[i], x.file[i])
    BY <1>2, <1>4, <1>5 DEF Same
<1>8. CacheOK(x, h, v) /\ Keeps(d, x, h)
    BY <1>6, <1>7, LeavesInUse
<1>9. NoName(x, d.file[i].name)
  <2> SUFFICES ASSUME NEW j \in x.rbtree PROVE x.file[j].name # d.file[i].name
      BY DEF NoName
  <2>1. j \in d.rbtree /\ j # i /\ j \in Ids
      BY <1>6 DEF Out, CacheOK, Cache
  <2>2. x.file[j] = d.file[j]
      BY <1>6, <2>1 DEF Out
  <2> QED
      BY <2>1, <2>2 DEF CacheOK, NamesUnique
<1> QED
    BY <1>8, <1>9

\* The entry that the cache has for the name takes the result, or is used instead,
\* or is left to its users.
LEMMA EntrySaved ==
    ASSUME NEW d, NEW h \in [Ids -> Nat], NEW v, CacheOK(d, h, v), NEW of, Given(d, of, v),
           NEW i \in d.rbtree, NEW n \in Names, d.file[i].name = n, NEW choice \in SaveChoices,
           NEW s, s = save_entry(d, i, n, of, choice)
    PROVE  SaveOK(d, s, h, v \ {of.fd})
<1> DEFINE f == d.file[i]
           e == [queue_remove(d, i) EXCEPT !.file[i].uses = Used(@)]
<1>1. Taken(d, e, i)
    BY EntryTaken
<1>2. s = IF NotKept(f)
          THEN IF Failing(of) THEN save_failed(e, i, of) ELSE save_update(e, i, of)
          ELSE IF f.fresh /\ (of.uniq = 0 \/ of.uniq = f.uniq) THEN save_hit(e, i, of)
          ELSE IF Failing(of) THEN save_failed(e, i, of)
          ELSE IF f.err \/ f.is_dir THEN save_update(e, i, of)
          ELSE save_changed(e, i, n, of, choice)
    BY DEF save_entry
<1> HIDE DEF e
<1>3. i \in Ids /\ EntryOK(d, i, h[i])
    BY DEF CacheOK, Cache
<1>4. CASE s = save_failed(e, i, of)
    BY <1>1, <1>4, FailedEntry
<1>5. CASE s = save_update(e, i, of) /\ ~Failing(of) /\ f.fd = INVALID
  <2>1. h[i] = 0
      BY <1>3, <1>5 DEF EntryOK
  <2>2. Slot(d, e, i)
      BY <1>1, <1>5, <2>1, TakenSlot
  <2> QED
      BY <1>3, <1>5, <2>1, <2>2, UpdateSlot
<1>6. CASE s = save_hit(e, i, of) /\ ~NotKept(f)
    BY <1>1, <1>6, HitEntry
<1>7. CASE s = save_changed(e, i, n, of, choice) /\ ~Failing(of) /\ f.fd # INVALID
  <2> DEFINE k == ngx_close_file(e, f.fd)
             x == [rbtree_delete(e, i) EXCEPT !.file[i].close = TRUE]
  <2>1. e.file[i].count = h[i] /\ e.file[i].fd = f.fd
      BY <1>1, <1>3 DEF Taken, Same, EntryOK
  <2>2. s = IF h[i] = 0 THEN save_update(k, i, of) ELSE save_create(x, n, of, choice)
      BY <1>7, <2>1 DEF save_changed
  <2>3. CASE h[i] = 0
    <3>1. Slot(d, k, i)
        BY <1>1, <1>7, <2>3, TakenSlot
    <3> HIDE DEF k
    <3> QED
        BY <1>3, <1>7, <2>2, <2>3, <3>1, UpdateSlot
  <2>4. CASE h[i] # 0
    <3>1. h[i] > 0
        BY <1>3, <2>4
    <3>2. CacheOK(x, h, v) /\ Keeps(d, x, h) /\ NoName(x, n)
        BY <1>1, <3>1, ChangedInUse
    <3> HIDE DEF x
    <3>3. Given(x, of, v)
        BY <3>2, GivenKept
    <3>4. SaveOK(x, s, h, v \ {of.fd})
        BY <1>7, <2>2, <2>4, <3>2, <3>3, CreateOK
    <3> QED
        BY <3>2, <3>4, SaveKept
  <2> QED
      BY <2>3, <2>4
<1>8. f.err \/ f.is_dir => f.fd = INVALID
    BY <1>3 DEF EntryOK
<1>9. NotKept(f) <=> f.fd = INVALID /\ ~f.err /\ ~f.is_dir
    BY DEF NotKept
<1> HIDE DEF f
<1> QED
    BY <1>2, <1>4, <1>5, <1>6, <1>7, <1>8, <1>9, Zenon

\* No entry was held: the result is saved under its name.
LEMMA LookupSaved ==
    ASSUME NEW d, NEW h \in [Ids -> Nat], NEW v, CacheOK(d, h, v), NEW of, Given(d, of, v),
           NEW n \in Names, NEW choice \in SaveChoices,
           NEW s, s = save_lookup(d, n, of, choice)
    PROVE  SaveOK(d, s, h, v \ {of.fd})
<1> DEFINE found == ngx_open_file_lookup(d, n)
           i == CHOOSE j \in found : TRUE
<1>1. s = IF found # {} THEN save_entry(d, i, n, of, choice)
          ELSE IF Failing(of) THEN save_failed(d, None, of)
          ELSE save_create(d, n, of, choice)
    BY DEF save_lookup
<1>2. CASE found # {}
  <2>1. i \in found
      BY <1>2
  <2> HIDE DEF i
  <2>2. i \in d.rbtree /\ d.file[i].name = n
      BY <2>1 DEF ngx_open_file_lookup
  <2> QED
      BY <1>1, <1>2, <2>2, EntrySaved
<1>3. CASE found = {}
  <2>1. NoName(d, n)
      BY <1>3 DEF ngx_open_file_lookup, NoName
  <2>2. CASE Failing(of)
      BY <1>1, <1>3, <2>2, FailedNone
  <2>3. CASE ~Failing(of)
      BY <1>1, <1>3, <2>1, <2>3, CreateOK
  <2> QED
      BY <2>2, <2>3
<1> QED
    BY <1>2, <1>3

Minus(h, i) == [h EXCEPT ![i] = @ - 1]

Uncounted(d, i) == [d EXCEPT !.file[i].count = @ - 1]

StillThere(d, e, i, g, v) ==
    /\ CacheOK(e, g, v) /\ Keeps(d, e, g) /\ e.rbtree = d.rbtree
    /\ e.file[i].name = d.file[i].name

\* A request that held an entry of the cache gives its count back.
LEMMA CountDown ==
    ASSUME NEW d, NEW h \in [Ids -> Nat], NEW v, CacheOK(d, h, v), NEW i \in d.rbtree,
           h[i] > 0, NEW e, e = Uncounted(d, i), NEW g, g = Minus(h, i)
    PROVE  StillThere(d, e, i, g, v)
<1> DEFINE f == d.file[i]
           x == [f EXCEPT !.count = f.count - 1]
           y == [d EXCEPT !.file[i] = x]
<1>1. /\ d \in Cache /\ i \in Ids /\ f \in File /\ EntryOK(d, i, h[i]) /\ HandlesOK(d, v)
      /\ h[i] \in Nat
    BY DEF CacheOK, Cache
<1>2. e = y
    BY DEF Uncounted
<1>3. /\ x \in File /\ x.count = h[i] - 1 /\ x.live = f.live /\ x.name = f.name
      /\ x.fd = f.fd /\ x.uniq = f.uniq /\ x.err = f.err /\ x.is_dir = f.is_dir
      /\ x.special = f.special /\ x.close = f.close
    BY <1>1 DEF File, EntryOK
<1> HIDE DEF x
<1>4. /\ y \in Cache /\ y.file[i] = x /\ \A j \in Ids \ {i} : y.file[j] = d.file[j]
      /\ y.rbtree = d.rbtree /\ y.current = d.current
      /\ y.expire_queue = d.expire_queue /\ y.broken = d.broken /\ y.open = d.open
    BY <1>1, <1>3, SetFile
<1> HIDE DEF y
<1>5. g \in [Ids -> Nat] /\ g[i] = h[i] - 1 /\ \A j \in Ids \ {i} : g[j] = h[j]
    BY <1>1 DEF Minus
<1>6. Others(d, y, i) /\ QueueOK(y) /\ ~y.broken
      /\ y.current = Cardinality(y.rbtree) /\ y.current <= MaxFiles
    BY <1>4 DEF Others, QueueOK, CacheOK
<1>7. EntryOK(y, i, g[i])
    BY <1>1, <1>3, <1>4, <1>5 DEF EntryOK
<1>8. HandlesOK(y, v)
    BY <1>1, <1>3, <1>4, <1>6, HandleKept
<1>9. \A j \in y.rbtree \ {i} : y.file[j].name # y.file[i].name
    BY <1>1, <1>3, <1>4 DEF CacheOK, NamesUnique, Cache
<1>10. CacheOK(y, g, v)
    BY <1>1, <1>4, <1>5, <1>6, <1>7, <1>8, <1>9, OneEntry
<1>11. Keeps(d, y, g)
    BY <1>3, <1>4, <1>5 DEF Keeps
<1> QED
    BY <1>2, <1>3, <1>4, <1>10, <1>11 DEF StillThere

\* save_retested, when the file did not change
SavedAgain(d, i, of) ==
    LET e == [d EXCEPT !.file[i].count = @ - 1]
        b == IF d.file[i].close THEN e ELSE queue_remove(e, i)
    IN save_update([b EXCEPT !.file[i].uses = Used(@)], i, of)

\* The file that was retested did not change: its entry is used again, whether it
\* is in the cache or left it meanwhile.
LEMMA FoundAgain ==
    ASSUME NEW d, NEW h \in [Ids -> Nat], NEW v, CacheOK(d, h, v), NEW i \in Ids, h[i] > 0,
           NEW of \in OpenFileInfo, ~of.special, ~of.err, ~of.is_dir,
           of.fd = d.file[i].fd, of.uniq = d.file[i].uniq,
           NEW s, s = SavedAgain(d, i, of)
    PROVE  SaveOK(d, s, Minus(h, i), v \ {of.fd})
<1> DEFINE f == d.file[i]
           e == [d EXCEPT !.file[i].count = @ - 1]
           b == IF d.file[i].close THEN e ELSE queue_remove(e, i)
           x == [f EXCEPT !.count = f.count - 1]
           ee == [d EXCEPT !.file[i] = x]
           y == [x EXCEPT !.uses = Used(x.uses)]
           k == [b EXCEPT !.file[i] = y]
           z == Updated(y, of)
           m == [k EXCEPT !.file[i] = z]
           q == queue_insert_head(m, i)
<1>1. /\ d \in Cache /\ f \in File /\ EntryOK(d, i, h[i]) /\ HandlesOK(d, v)
      /\ h[i] \in Nat /\ QueueOK(d) /\ ~d.broken
    BY DEF CacheOK, Cache
<1>2. /\ x \in File /\ x.count = h[i] - 1 /\ x.live = f.live /\ x.name = f.name
      /\ x.fd = f.fd /\ x.uniq = f.uniq /\ x.special = f.special /\ x.close = f.close
    BY <1>1 DEF File, EntryOK
<1> HIDE DEF x
<1>3. /\ ee \in Cache /\ ee.file[i] = x /\ \A j \in Ids \ {i} : ee.file[j] = d.file[j]
      /\ ee.rbtree = d.rbtree /\ ee.current = d.current
      /\ ee.expire_queue = d.expire_queue /\ ee.broken = d.broken /\ ee.open = d.open
    BY <1>1, <1>2, SetFile
<1>4. e = ee
    BY SMTT(60) DEF x
<1>0. s = save_update([b EXCEPT !.file[i].uses = Used(@)], i, of)
    BY DEF SavedAgain
<1> HIDE DEF ee, e
<1>5. f.live = TRUE /\ f.special = FALSE /\ f.fd # INVALID /\ f.count = h[i]
      /\ (f.close <=> i \notin d.rbtree) /\ f.close \in BOOLEAN
    BY <1>1 DEF EntryOK, File
<1>6. /\ b \in Cache /\ b.file = e.file /\ b.rbtree = d.rbtree /\ b.current = d.current
      /\ b.open = d.open /\ ~b.broken
      /\ NoRepeat(b.expire_queue) /\ ToSet(b.expire_queue) = d.rbtree \ {i}
      /\ f.close => ToSet(b.expire_queue) = d.rbtree
  <2>1. e \in Cache /\ QueueOK(e)
      BY <1>1, <1>3, <1>4 DEF QueueOK
  <2>2. CASE f.close
    <3>1. b = e /\ i \notin d.rbtree
        BY <1>5, <2>2
    <3> QED
        BY <1>1, <1>3, <1>4, <2>1, <3>1 DEF QueueOK
  <2>3. CASE ~f.close
    <3>1. b = queue_remove(e, i) /\ i \in e.rbtree
        BY <1>3, <1>4, <1>5, <2>3
    <3> QED
        BY <1>1, <1>3, <1>4, <2>1, <2>3, <3>1, RemoveFields
  <2> QED
      BY <2>2, <2>3
<1> HIDE DEF b
<1>7. y \in File /\ y.count = x.count /\ y.live = x.live /\ y.name = x.name
      /\ y.fd = x.fd /\ y.uniq = x.uniq /\ y.special = x.special /\ y.close = x.close
  <2>1. Used(x.uses) \in 0 .. MinUses
      BY <1>2, UsedType DEF File
  <2> QED
      BY <1>2, <2>1 DEF File
<1> HIDE DEF y
<1>8. /\ k \in Cache /\ k.file[i] = y /\ \A j \in Ids \ {i} : k.file[j] = b.file[j]
      /\ k.rbtree = b.rbtree /\ k.current = b.current
      /\ k.expire_queue = b.expire_queue /\ k.broken = b.broken /\ k.open = b.open
    BY <1>6, <1>7, SetFile
<1>9. s = save_update(k, i, of)
  <2>1. b.file[i] = x
      BY <1>3, <1>4, <1>6
  <2> QED
      BY <1>0, <2>1 DEF y
<1> HIDE DEF k
<1>10. /\ z \in File /\ z.live = y.live /\ z.name = y.name /\ z.close = y.close
       /\ z.fd = of.fd /\ z.err = of.err
       /\ z.uniq = of.uniq /\ z.is_dir = of.is_dir /\ z.special = of.special
       /\ z.count = y.count + NewUsers(of)
    BY <1>7, UpdatedFacts
<1>11. s = save_found(m, i, of)
    BY <1>8, <1>9 DEF save_update, Updated
<1> HIDE DEF z
<1>12. z.count = h[i] /\ z.live = TRUE /\ z.special = FALSE /\ z.close = f.close /\ z.name = f.name
       /\ z.fd = f.fd /\ z.uniq = f.uniq /\ ~z.err /\ ~z.is_dir
  <2>1. NewUsers(of) = 1
      BY DEF NewUsers
  <2>2. of.special = FALSE
      BY DEF OpenFileInfo
  <2> QED
      BY <1>1, <1>2, <1>5, <1>7, <1>10, <2>1, <2>2
<1>13. /\ m \in Cache /\ m.file[i] = z /\ \A j \in Ids \ {i} : m.file[j] = k.file[j]
       /\ m.rbtree = k.rbtree /\ m.current = k.current
       /\ m.expire_queue = k.expire_queue /\ m.broken = k.broken /\ m.open = k.open
    BY <1>8, <1>10, SetFile
<1> HIDE DEF m
<1> DEFINE r == IF f.close THEN m ELSE q
<1>14. s.c = r /\ s.of = [of EXCEPT !.ok = ~of.err] /\ s.file = i
    BY <1>11, <1>12, <1>13 DEF save_found
<1>15. r \in Cache /\ r.file = m.file /\ r.rbtree = d.rbtree /\ r.current = d.current
       /\ r.open = d.open /\ ~r.broken /\ QueueOK(r)
  <2>1. CASE f.close
      BY <1>6, <1>8, <1>13, <2>1, ZenonT(60) DEF QueueOK
  <2>2. CASE ~f.close
    <3>1. NoRepeat(m.expire_queue) /\ ToSet(m.expire_queue) = d.rbtree \ {i} /\ i \in d.rbtree
        BY <1>5, <1>6, <1>8, <1>13, <2>2
    <3>2. /\ q \in Cache
          /\ q.file = m.file /\ q.rbtree = m.rbtree /\ q.current = m.current
          /\ q.open = m.open /\ q.broken = m.broken
          /\ NoRepeat(q.expire_queue)
          /\ ToSet(q.expire_queue) = ToSet(m.expire_queue) \cup {i}
        BY <1>13, <3>1, InsertFields
    <3>3. r = q
        BY <2>2
    <3> HIDE DEF q, r
    <3> QED
        BY <1>6, <1>8, <1>13, <3>1, <3>2, <3>3, ZenonT(60) DEF QueueOK
  <2> QED
      BY <2>1, <2>2
<1> HIDE DEF q, r
<1>16. r.file[i] = z /\ Others(d, r, i)
    BY <1>3, <1>4, <1>6, <1>8, <1>13, <1>15 DEF Others
<1>17. HandlesOK(r, v)
    BY <1>1, <1>12, <1>15, <1>16, HandleKept
<1>18. EntryOK(r, i, h[i])
    BY <1>1, <1>5, <1>12, <1>15, <1>16 DEF EntryOK
<1>19. i \in r.rbtree => \A j \in r.rbtree \ {i} : r.file[j].name # r.file[i].name
    BY <1>1, <1>12, <1>15, <1>16 DEF CacheOK, NamesUnique, Others, Cache
<1>20. CacheOK(r, h, v)
  <2>1. r.current = Cardinality(r.rbtree) /\ r.current <= MaxFiles
      BY <1>15 DEF CacheOK
  <2> QED
      BY <1>15, <1>16, <1>17, <1>18, <1>19, <2>1, OneEntry
<1>21. v \ {of.fd} = v
    BY <1>1, <1>5 DEF HandlesOK
<1>22. i # None /\ Plus(Minus(h, i), i) = h
  <2>1. i # None
      BY NoneFacts
  <2> DEFINE p == Plus(Minus(h, i), i)
  <2>2. p = [[h EXCEPT ![i] = @ - 1] EXCEPT ![i] = @ + 1]
      BY <2>1 DEF Plus, Minus
  <2>3. p \in [Ids -> Nat] /\ p[i] = h[i] /\ \A j \in Ids \ {i} : p[j] = h[j]
    <3> HIDE DEF p
    <3> QED
        BY <1>1, <2>2
  <2> HIDE DEF p
  <2>4. \A j \in Ids : p[j] = h[j]
      BY <2>3
  <2>5. p = h
      BY <2>3, <2>4
  <2> QED
      BY <2>1, <2>5 DEF p
<1>23. Keeps(d, r, Minus(h, i))
    BY <1>12, <1>15, <1>16 DEF Keeps, Others
<1>24. s.of \in OpenFileInfo /\ ~s.of.special /\ s.of.ok /\ ~s.of.is_dir
       /\ s.of.fd = of.fd /\ s.of.uniq = of.uniq
    BY <1>14 DEF OpenFileInfo
<1> QED
    BY <1>12, <1>14, <1>16, <1>20, <1>21, <1>22, <1>23, <1>24, SMTT(60) DEF SaveOK

\* The result of a thread that retested entry i: the handle of the entry, or a new
\* one if another file has the name.
Retested(d, i, of, v) ==
    /\ of \in OpenFileInfo /\ ResultOK(of) /\ ~of.special
    /\ of.fd # INVALID => IF of.uniq = d.file[i].uniq THEN of.fd = d.file[i].fd
                          ELSE of.fd \in v /\ d.open[of.fd] = of.uniq

\* The retest failed and the entry left the cache meanwhile: the entry goes with
\* its last user, as it does when a request ends.
LEMMA LastUser ==
    ASSUME NEW d, NEW h \in [Ids -> Nat], NEW v, CacheOK(d, h, v), NEW i \in Ids, h[i] > 0,
           d.file[i].close = TRUE, NEW e, e = Uncounted(d, i)
    PROVE  (IF d.file[i].count = 1 THEN Free(ngx_close_file(e, d.file[i].fd), i) ELSE e)
            = ngx_close_cached_file(e, i, 0)
<1> DEFINE f == d.file[i]
           x == [f EXCEPT !.count = f.count - 1]
<1>1. /\ d \in Cache /\ f \in File /\ EntryOK(d, i, h[i]) /\ HandlesOK(d, v)
    BY DEF CacheOK, Cache
<1>2. f.count \in Nat /\ f.count > 0 /\ f.fd # INVALID /\ f.fd \in Fds /\ d.open[f.fd] # 0
    BY <1>1 DEF EntryOK, HandlesOK, File
<1>3. e = [d EXCEPT !.file[i] = x]
    BY DEF Uncounted
<1>4. x \in File /\ x.count = f.count - 1 /\ x.close = TRUE /\ x.fd = f.fd
    BY <1>1, <1>2 DEF File
<1> HIDE DEF x
<1>5. e \in Cache /\ e.file[i] = x /\ e.open = d.open
  <2> DEFINE y == [d EXCEPT !.file[i] = x]
  <2>1. y \in Cache /\ y.file[i] = x /\ y.open = d.open
      BY <1>1, <1>4, SetFile
  <2>2. e = y
      BY <1>3
  <2> HIDE DEF y
  <2> QED
      BY <2>1, <2>2
<1>6. CASE f.count # 1
  <2>1. e.file[i].close = TRUE /\ e.file[i].count # 0
      BY <1>2, <1>4, <1>5, <1>6
  <2>2. ngx_close_cached_file(e, i, 0) = e
      BY <2>1, CloseInUse, Zenon
  <2> QED
      BY <1>6, <2>2
<1>7. CASE f.count = 1
  <2> DEFINE k == ngx_close_file(e, f.fd)
             n == [k EXCEPT !.file[i].fd = INVALID]
  <2>1. e.file[i].count = 0 /\ e.file[i].close = TRUE /\ e.file[i].fd = f.fd
      BY <1>2, <1>4, <1>5, <1>7, SMTT(60)
  <2>2. ngx_close_cached_file(e, i, 0) = Free(n, i)
      BY <1>2, <2>1 DEF ngx_close_cached_file
  <2>3. k \in Cache
      BY <1>2, <1>5, CloseFields
  <2> HIDE DEF k
  <2>4. Free(n, i) = Free(k, i)
      BY <2>3 DEF Free, Cache
  <2> QED
      BY <1>7, <2>2, <2>4 DEF k
<1> QED
    BY <1>6, <1>7

\* The result of a retest is saved.
LEMMA RetestSaved ==
    ASSUME NEW d, NEW h \in [Ids -> Nat], NEW v, CacheOK(d, h, v), NEW i \in Ids, h[i] > 0,
           NEW of, Retested(d, i, of, v), NEW n \in Names, d.file[i].name = n,
           NEW choice \in SaveChoices, NEW s, s = save_retested(d, i, n, of, choice)
    PROVE  SaveOK(d, s, Minus(h, i), v \ {of.fd})
<1> DEFINE f == d.file[i]
           e == Uncounted(d, i)
           same == ~of.is_dir /\ ~of.err /\ of.uniq = f.uniq
           last == IF f.count = 1 THEN Free(ngx_close_file(e, f.fd), i) ELSE e
           x == ngx_close_cached_file(e, i, 0)
           g == Minus(h, i)
<1>1. /\ d \in Cache /\ f \in File /\ EntryOK(d, i, h[i]) /\ f.close \in BOOLEAN
      /\ f.live /\ (~f.close => i \in d.rbtree)
  <2>1. d \in Cache /\ f \in File /\ EntryOK(d, i, h[i]) /\ f.close \in BOOLEAN
      BY SMTT(60) DEF CacheOK, Cache, File
  <2> QED
      BY <2>1 DEF EntryOK
<1>2. s = IF Failing(of)
          THEN IF f.close THEN save_failed(last, None, of)
               ELSE save_failed(queue_remove(e, i), i, of)
          ELSE IF same THEN SavedAgain(d, i, of)
          ELSE IF f.close THEN save_lookup(x, n, of, choice)
          ELSE save_entry(e, i, n, of, choice)
    BY DEF save_retested, SavedAgain, Uncounted
<1>3. CacheOK(x, g, v) /\ Keeps(d, x, g)
    BY GiveBack DEF Minus, Uncounted
<1>4. f.close = TRUE => last = x
    BY LastUser
<1>5. ASSUME i \in d.rbtree
      PROVE  /\ CacheOK(e, g, v) /\ Keeps(d, e, g) /\ e.rbtree = d.rbtree
             /\ e.file[i].name = n
  <2>1. e = Uncounted(d, i) /\ g = Minus(h, i)
      OBVIOUS
  <2> HIDE DEF e, g, x, last
  <2>2. StillThere(d, e, i, g, v)
      BY <1>5, <2>1, CountDown
  <2> QED
      BY <2>2 DEF StillThere
<1>6. g \in [Ids -> Nat]
    BY DEF Minus
<1> HIDE DEF e, x, last, g
<1>7. ~same \/ Failing(of) => Given(d, of, v)
    BY DEF Given, Retested, ResultOK, Failing
<1>8. CASE Failing(of) /\ f.close
  <2>1. s = save_failed(x, None, of)
      BY <1>1, <1>2, <1>4, <1>8
  <2>2. Given(x, of, v)
      BY <1>3, <1>7, <1>8, GivenKept
  <2>3. SaveOK(x, s, g, v \ {of.fd})
      BY <1>3, <2>1, <2>2, FailedNone
  <2> QED
      BY <1>3, <2>3, SaveKept DEF g
<1>9. CASE Failing(of) /\ ~f.close
  <2>1. i \in d.rbtree /\ CacheOK(e, g, v) /\ Keeps(d, e, g) /\ i \in e.rbtree
      BY <1>1, <1>5, <1>9
  <2>2. Given(e, of, v)
      BY <1>7, <1>9, <2>1, GivenKept
  <2> DEFINE y == queue_remove(e, i)
  <2>3. Taken(e, y, i)
    <3>1. e \in Cache /\ QueueOK(e) /\ ~e.broken /\ e.file[i] \in File
        BY <2>1 DEF CacheOK, Cache
    <3>2. /\ y \in Cache
          /\ y.file = e.file /\ y.rbtree = e.rbtree /\ y.current = e.current
          /\ y.open = e.open /\ y.broken = e.broken
          /\ NoRepeat(y.expire_queue)
          /\ ToSet(y.expire_queue) = e.rbtree \ {i}
        BY <2>1, <3>1, RemoveFields
    <3> HIDE DEF y
    <3> QED
        BY <3>1, <3>2 DEF Taken, Same
  <2>4. s = save_failed(y, i, of)
      BY <1>2, <1>9
  <2> HIDE DEF y
  <2>5. SaveOK(e, s, g, v \ {of.fd})
      BY <1>6, <2>1, <2>2, <2>3, <2>4, FailedEntry
  <2> QED
      BY <2>1, <2>5, SaveKept DEF g
<1>10. CASE ~Failing(of) /\ same
  <2>1. s = SavedAgain(d, i, of)
      BY <1>2, <1>10
  <2>2. of \in OpenFileInfo /\ ~of.special /\ of.fd = f.fd
      BY <1>10 DEF Retested, ResultOK, Failing
  <2> QED
      BY <1>10, <2>1, <2>2, FoundAgain
<1>11. CASE ~Failing(of) /\ ~same /\ f.close
  <2>1. s = save_lookup(x, n, of, choice)
      BY <1>2, <1>11
  <2>2. Given(x, of, v)
      BY <1>3, <1>7, <1>11, GivenKept
  <2>3. SaveOK(x, s, g, v \ {of.fd})
      BY <1>3, <1>6, <2>1, <2>2, LookupSaved
  <2> QED
      BY <1>3, <2>3, SaveKept DEF g
<1>12. CASE ~Failing(of) /\ ~same /\ ~f.close
  <2>1. s = save_entry(e, i, n, of, choice)
      BY <1>2, <1>12
  <2>2. i \in d.rbtree /\ CacheOK(e, g, v) /\ Keeps(d, e, g) /\ i \in e.rbtree
        /\ e.file[i].name = n
      BY <1>1, <1>5, <1>12
  <2>3. Given(e, of, v)
      BY <1>7, <1>12, <2>2, GivenKept
  <2>4. SaveOK(e, s, g, v \ {of.fd})
      BY <1>6, <2>1, <2>2, <2>3, EntrySaved
  <2> QED
      BY <2>2, <2>4, SaveKept DEF g
<1> QED
    BY <1>8, <1>9, <1>10, <1>11, <1>12

-----------------------------------------------------------------------------
(* The requests other than one of them *)

RestOf(R, r) == [i \in Ids |-> Cardinality(HoldersOf(R, i) \ {r})]

RestOwn(R, F, r) == {R[s].of.fd : s \in {t \in Reqs \ {r} : Opening(R[t], F)}}

\* Finitely many requests hold an entry.
LEMMA HoldersFinite ==
    ASSUME NEW R, NEW r, NEW i
    PROVE  /\ IsFiniteSet(HoldersOf(R, i)) /\ IsFiniteSet(HoldersOf(R, i) \ {r})
           /\ Cardinality(HoldersOf(R, i)) \in Nat
           /\ Cardinality(HoldersOf(R, i) \ {r}) \in Nat
<1>1. IsFiniteSet(Reqs)
    BY OpenFileAssumption
<1>2. HoldersOf(R, i) \subseteq Reqs /\ HoldersOf(R, i) \ {r} \subseteq Reqs
    BY DEF HoldersOf
<1> QED
    BY <1>1, <1>2, FS_Subset, FS_CardinalityType

\* The number of holders of each entry is a natural number.
LEMMA RestType ==
    ASSUME NEW R, NEW r
    PROVE  RestOf(R, r) \in [Ids -> Nat] /\ HoldOf(R) \in [Ids -> Nat]
    BY HoldersFinite DEF RestOf, HoldOf

\* What all requests hold is what the others hold and what r holds.
LEMMA HoldSplit ==
    ASSUME NEW R, NEW r \in Reqs, R[r].file \in Ids \cup {None},
           R[r].file # None => R[r].cached
    PROVE  HoldOf(R) = Plus(RestOf(R, r), R[r].file)
<1> DEFINE k == R[r].file
           p == Plus(RestOf(R, r), k)
<1>1. RestOf(R, r) \in [Ids -> Nat] /\ HoldOf(R) \in [Ids -> Nat] /\ k \in Ids \cup {None}
    BY RestType
<1>2. /\ p \in [Ids -> Nat]
      /\ \A i \in Ids : p[i] = IF i = k THEN RestOf(R, r)[i] + 1 ELSE RestOf(R, r)[i]
    BY <1>1, NoneFacts DEF Plus
<1> HIDE DEF p
<1>3. ASSUME NEW i \in Ids PROVE p[i] = HoldOf(R)[i]
  <2> DEFINE H == HoldersOf(R, i)
  <2>1. /\ HoldOf(R)[i] = Cardinality(H) /\ RestOf(R, r)[i] = Cardinality(H \ {r})
        /\ IsFiniteSet(H) /\ Cardinality(H) \in Nat
      BY HoldersFinite DEF HoldOf, RestOf
  <2>2. CASE i = k
    <3>1. r \in H
        BY <2>2, NoneFacts DEF HoldersOf
    <3> HIDE DEF H
    <3>2. Cardinality(H \ {r}) = Cardinality(H) - 1
        BY <2>1, <3>1, FS_RemoveElement
    <3> QED
        BY <1>2, <2>1, <2>2, <3>2
  <2>3. CASE i # k
    <3>1. H \ {r} = H
        BY <2>3 DEF HoldersOf
    <3> QED
        BY <1>2, <2>1, <2>3, <3>1
  <2> QED
      BY <2>2, <2>3
<1>4. p = HoldOf(R)
    BY <1>1, <1>2, <1>3
<1> QED
    BY <1>4 DEF p

\* A step of r changes nothing about what the others hold.
LEMMA RestSame ==
    ASSUME NEW R, NEW S, NEW r, \A s \in Reqs \ {r} : S[s] = R[s]
    PROVE  RestOf(S, r) = RestOf(R, r)
<1>1. \A i \in Ids : HoldersOf(S, i) \ {r} = HoldersOf(R, i) \ {r}
    BY DEF HoldersOf
<1> QED
    BY <1>1 DEF RestOf

\* An entry that another request holds.
LEMMA RestHeld ==
    ASSUME NEW R, NEW r, NEW s \in Reqs \ {r}, NEW i \in Ids, R[s].file = i, R[s].cached
    PROVE  RestOf(R, r)[i] > 0
<1> DEFINE H == HoldersOf(R, i) \ {r}
<1>1. s \in H
    BY DEF HoldersOf
<1>0. IsFiniteSet(H) /\ Cardinality(H) \in Nat
    BY HoldersFinite
<1>2. RestOf(R, r)[i] = Cardinality(H)
    BY DEF RestOf
<1> HIDE DEF H
<1>3. Cardinality(H) # 0
    BY <1>0, <1>1, FS_EmptySet
<1> QED
    BY <1>0, <1>2, <1>3

\* The handles owned by requests are those of the others and that of r.
LEMMA OwnSplit ==
    ASSUME NEW R, NEW F, NEW r \in Reqs
    PROVE  OwnOf(R, F) = RestOwn(R, F, r)
                          \cup (IF Opening(R[r], F) THEN {R[r].of.fd} ELSE {})
    BY DEF OwnOf, RestOwn

\* A request has an entry's handle or its own, never that of another request.
LEMMA RestOwnIs ==
    ASSUME IInv, NEW r \in Reqs
    PROVE  RestOwn(req, c.file, r) = OwnOf(req, c.file) \ {req[r].of.fd}
<1> DEFINE q == req[r]
           F == c.file
<1>1. /\ q \in Request /\ RequestOK(q, F, disk) /\ CacheOK(c, HoldOf(req), OwnOf(req, F))
      /\ OpenersOK(req, F, c.open)
    BY DEF IInv, TypeOK
<1>2. CASE Opening(q, F)
  <2>1. OwnOf(req, F) = RestOwn(req, F, r) \cup {q.of.fd}
      BY <1>2, OwnSplit
  <2>2. q.of.fd \notin RestOwn(req, F, r)
      BY <1>1, <1>2 DEF RestOwn, OpenersOK
  <2> QED
      BY <2>1, <2>2
<1>3. CASE ~Opening(q, F)
  <2>1. OwnOf(req, F) = RestOwn(req, F, r)
      BY <1>3, OwnSplit
  <2>2. q.of.fd \notin OwnOf(req, F)
    <3>1. HandlesOK(c, OwnOf(req, F))
        BY <1>1 DEF CacheOK
    <3>2. CASE q.of.fd = INVALID
        BY <3>1, <3>2, NoneFacts DEF HandlesOK
    <3>3. CASE q.of.fd # INVALID
      <4>1. q.file # None /\ (q.pc = "done" => q.of.uniq = F[q.file].uniq)
          BY <1>3, <3>3 DEF Opening
      <4>2. q.pc \in {"idle", "stat", "open", "done", "using", "refused"}
            /\ q.file \in Ids
          BY <1>1, <4>1 DEF Request
      <4>3. q.pc # "idle"
          BY <1>1, <3>3 DEF RequestOK, NoRequest, NoInfo
      <4>4. q.of.fd = F[q.file].fd
          BY <1>1, <3>3, <4>1, <4>2, <4>3 DEF RequestOK, Knows
      <4> QED
          BY <3>1, <3>3, <4>2, <4>4 DEF HandlesOK
    <3> QED
        BY <3>2, <3>3
  <2> QED
      BY <2>1, <2>2
<1> QED
    BY <1>2, <1>3

-----------------------------------------------------------------------------
(* A step of one request *)

\* The entries held keep their file, the first part of Keeps.
KeepsHeld(d, e, h) ==
    \A j \in Ids : h[j] > 0 => /\ e.file[j].fd = d.file[j].fd
                               /\ e.file[j].uniq = d.file[j].uniq
                               /\ e.file[j].name = d.file[j].name

\* Request r becomes q in cache e: what is to be shown of the step.
StepTo(r, q, e, D) ==
    /\ CacheOK(e, Plus(RestOf(req, r), q.file),
               RestOwn(req, c.file, r) \cup (IF Opening(q, e.file) THEN {q.of.fd} ELSE {}))
    /\ KeepsHeld(c, e, RestOf(req, r))
    /\ \A fd \in RestOwn(req, c.file, r) : e.open[fd] = c.open[fd]
    /\ RequestOK(q, e.file, D)
    /\ Opening(q, e.file) => /\ e.open[q.of.fd] = q.of.uniq
                             /\ q.of.fd \notin RestOwn(req, c.file, r)
    /\ DiskOK(e.open, D)

\* The other requests find their entries and descriptors as they were.
LEMMA OthersKept ==
    ASSUME IInv, NEW r, NEW e, KeepsHeld(c, e, RestOf(req, r)), NEW s \in Reqs \ {r}
    PROVE  /\ Opening(req[s], e.file) <=> Opening(req[s], c.file)
           /\ RequestOK(req[s], e.file, disk)
<1> DEFINE p == req[s]
<1>1. p \in Request /\ RequestOK(p, c.file, disk)
    BY DEF IInv, TypeOK
<1>2. p.file \in Ids \cup {None} /\ (p.file # None => p.cached)
    BY <1>1 DEF Request, RequestOK
<1>3. p.file # None => /\ p.file \in Ids
                       /\ e.file[p.file].fd = c.file[p.file].fd
                       /\ e.file[p.file].uniq = c.file[p.file].uniq
                       /\ e.file[p.file].name = c.file[p.file].name
  <2> SUFFICES ASSUME p.file # None
               PROVE  /\ p.file \in Ids
                      /\ e.file[p.file].fd = c.file[p.file].fd
                      /\ e.file[p.file].uniq = c.file[p.file].uniq
                      /\ e.file[p.file].name = c.file[p.file].name
      OBVIOUS
  <2>1. p.file \in Ids /\ p.cached
      BY <1>2
  <2>2. RestOf(req, r)[p.file] > 0
      BY <2>1, RestHeld
  <2> QED
      BY <2>1, <2>2 DEF KeepsHeld
<1> HIDE DEF p
<1>4. Opening(p, e.file) <=> Opening(p, c.file)
    BY <1>3 DEF Opening
<1>5. RequestOK(p, e.file, disk)
    BY <1>1, <1>3 DEF RequestOK, Knows
<1> QED
    BY <1>4, <1>5 DEF p

\* A step of one request that leaves the cache consistent preserves the invariant.
LEMMA StepOK ==
    ASSUME IInv, NEW r \in Reqs, NEW q \in Request, NEW e,
           req' = [req EXCEPT ![r] = q], c' = e, disk' = disk, StepTo(r, q, e, disk)
    PROVE  IInv'
<1> DEFINE R == [req EXCEPT ![r] = q]
           w == RestOwn(req, c.file, r)
<1>1. /\ req \in [Reqs -> Request] /\ R \in [Reqs -> Request] /\ R[r] = q
      /\ \A s \in Reqs \ {r} : R[s] = req[s]
    BY DEF IInv, TypeOK
<1>2. CacheOK(e, Plus(RestOf(req, r), q.file), w \cup (IF Opening(q, e.file) THEN {q.of.fd} ELSE {}))
      /\ KeepsHeld(c, e, RestOf(req, r))
      /\ (\A fd \in w : e.open[fd] = c.open[fd])
      /\ RequestOK(q, e.file, disk)
      /\ (Opening(q, e.file) => e.open[q.of.fd] = q.of.uniq /\ q.of.fd \notin w)
      /\ DiskOK(e.open, disk)
    BY DEF StepTo
<1>3. \A s \in Reqs \ {r} : /\ Opening(R[s], e.file) <=> Opening(req[s], c.file)
                            /\ RequestOK(R[s], e.file, disk)
    BY <1>1, <1>2, OthersKept
<1> HIDE DEF R
<1>4. HoldOf(R) = Plus(RestOf(req, r), q.file)
  <2>1. RestOf(R, r) = RestOf(req, r)
      BY <1>1, RestSame
  <2>2. q.file \in Ids \cup {None} /\ (q.file # None => q.cached)
      BY <1>2 DEF RequestOK, Request
  <2> QED
      BY <1>1, <2>1, <2>2, HoldSplit
<1>5. RestOwn(R, e.file, r) = w
    BY <1>1, <1>3 DEF RestOwn
<1>6. OwnOf(R, e.file) = w \cup (IF Opening(q, e.file) THEN {q.of.fd} ELSE {})
    BY <1>1, <1>5, OwnSplit
<1>7. CacheOK(e, HoldOf(R), OwnOf(R, e.file))
    BY <1>2, <1>4, <1>6
<1>8. \A s \in Reqs : RequestOK(R[s], e.file, disk)
    BY <1>1, <1>2, <1>3
<1>9. OpenersOK(R, e.file, e.open)
  <2>1. \A s \in Reqs \ {r} : Opening(R[s], e.file) =>
            R[s].of.fd \in w /\ c.open[R[s].of.fd] = R[s].of.uniq
      BY <1>1, <1>3 DEF RestOwn, IInv, OpenersOK
  <2>2. \A s \in Reqs : Opening(R[s], e.file) => e.open[R[s].of.fd] = R[s].of.uniq
      BY <1>1, <1>2, <2>1
  <2>3. ASSUME NEW s \in Reqs, NEW t \in Reqs, Opening(R[s], e.file), Opening(R[t], e.file),
               R[s].of.fd = R[t].of.fd
        PROVE  s = t
    <3>1. CASE s # r /\ t # r
        BY <1>1, <1>3, <2>3, <3>1 DEF IInv, OpenersOK
    <3>2. CASE s = r \/ t = r
        BY <1>1, <1>2, <2>1, <2>3, <3>2
    <3> QED
        BY <3>1, <3>2
  <2> QED
      BY <2>2, <2>3 DEF OpenersOK
<1>10. TypeOK'
    BY <1>1, <1>2 DEF IInv, TypeOK, CacheOK, R
<1>11. req' = R /\ c' = e /\ disk' = disk
    BY DEF R
<1> HIDE DEF w
<1>12. /\ CacheOK(c', HoldOf(req'), OwnOf(req', c'.file))
       /\ \A s \in Reqs : RequestOK(req'[s], c'.file, disk')
       /\ OpenersOK(req', c'.file, c'.open)
       /\ DiskOK(c'.open, disk')
    BY <1>2, <1>7, <1>8, <1>9, <1>11
<1> QED
    BY <1>10, <1>12 DEF IInv

\* Entry i is moved in the queue, counted, used or aged, and otherwise the same.
Touches(d, e, i) ==
    /\ e \in Cache /\ ~e.broken /\ QueueOK(e)
    /\ e.rbtree = d.rbtree /\ e.current = d.current /\ e.open = d.open
    /\ \A j \in Ids \ {i} : e.file[j] = d.file[j]
    /\ e.file[i].live = d.file[i].live /\ e.file[i].name = d.file[i].name
    /\ e.file[i].fd = d.file[i].fd /\ e.file[i].uniq = d.file[i].uniq
    /\ e.file[i].err = d.file[i].err /\ e.file[i].is_dir = d.file[i].is_dir
    /\ e.file[i].special = d.file[i].special /\ e.file[i].close = d.file[i].close

\* Using an entry of the tree once more keeps the cache consistent.
LEMMA TouchedOK ==
    ASSUME NEW d, NEW h, NEW v, CacheOK(d, h, v), NEW i \in d.rbtree, NEW e, Touches(d, e, i),
           NEW g, e.file[i].count = g[i], \A j \in Ids \ {i} : g[j] = h[j],
           g[i] > 0 => ~d.file[i].err /\ ~d.file[i].is_dir /\ d.file[i].fd # INVALID
    PROVE  CacheOK(e, g, v) /\ Keeps(d, e, h)
<1>1. /\ d \in Cache /\ i \in Ids /\ EntryOK(d, i, h[i]) /\ HandlesOK(d, v)
      /\ e \in Cache /\ ~e.broken /\ QueueOK(e)
    BY DEF CacheOK, Cache, Touches
<1>2. Others(d, e, i) /\ e.current = Cardinality(e.rbtree) /\ e.current <= MaxFiles
    BY DEF Others, Touches, CacheOK
<1>3. EntryOK(e, i, g[i])
    BY <1>1 DEF EntryOK, Touches
<1>4. HandlesOK(e, v)
    BY <1>1, <1>2, HandleKept DEF Touches
<1>5. \A j \in e.rbtree \ {i} : e.file[j].name # e.file[i].name
  <2> SUFFICES ASSUME NEW j \in e.rbtree \ {i} PROVE e.file[j].name # e.file[i].name
      OBVIOUS
  <2>1. j \in d.rbtree /\ j \in Ids /\ j # i
      BY <1>1 DEF Touches, Cache
  <2>2. e.file[j].name = d.file[j].name /\ e.file[i].name = d.file[i].name
      BY <2>1 DEF Touches
  <2> QED
      BY <2>1, <2>2 DEF CacheOK, NamesUnique
<1>6. CacheOK(e, g, v)
    BY <1>1, <1>2, <1>3, <1>4, <1>5, OneEntry
<1>7. Keeps(d, e, h)
    BY <1>1 DEF Keeps, Touches
<1> QED
    BY <1>6, <1>7

Counted(d, i) == [d EXCEPT !.file[i].count = @ + 1]

\* A retest takes a count on the entry of the file.
LEMMA CountUp ==
    ASSUME NEW d, NEW h \in [Ids -> Nat], NEW v, CacheOK(d, h, v), NEW i \in d.rbtree,
           ~d.file[i].err, ~d.file[i].is_dir, d.file[i].fd # INVALID,
           NEW e, e = Counted(d, i)
    PROVE  CacheOK(e, Plus(h, i), v) /\ Touches(d, e, i)
<1> DEFINE f == d.file[i]
           x == [f EXCEPT !.count = f.count + 1]
           y == [d EXCEPT !.file[i] = x]
<1>1. d \in Cache /\ i \in Ids /\ f \in File /\ EntryOK(d, i, h[i]) /\ QueueOK(d) /\ ~d.broken
    BY DEF CacheOK, Cache
<1>2. /\ x \in File /\ x.count = h[i] + 1 /\ x.live = f.live /\ x.name = f.name
      /\ x.fd = f.fd /\ x.uniq = f.uniq /\ x.err = f.err /\ x.is_dir = f.is_dir
      /\ x.special = f.special /\ x.close = f.close
    BY <1>1 DEF File, EntryOK
<1>3. e = y
    BY DEF Counted
<1> HIDE DEF x
<1>4. /\ y \in Cache /\ y.file[i] = x /\ \A j \in Ids \ {i} : y.file[j] = d.file[j]
      /\ y.rbtree = d.rbtree /\ y.current = d.current
      /\ y.expire_queue = d.expire_queue /\ y.broken = d.broken /\ y.open = d.open
    BY <1>1, <1>2, SetFile
<1> HIDE DEF y
<1>5. Touches(d, y, i)
    BY <1>1, <1>2, <1>4 DEF Touches, QueueOK
<1> DEFINE g == Plus(h, i)
<1>6. g[i] = h[i] + 1 /\ \A j \in Ids \ {i} : g[j] = h[j]
    BY <1>1, NoneFacts DEF Plus
<1> HIDE DEF g
<1>7. CacheOK(y, g, v)
    BY <1>2, <1>4, <1>5, <1>6, TouchedOK
<1> QED
    BY <1>3, <1>5, <1>7 DEF g

\* open_hit: the entry is moved to the head of the queue and counted if it has a handle.
HitCache(d, i) ==
    [queue_insert_head(queue_remove(d, i), i) EXCEPT
        !.file[i].uses = Used(@),
        !.file[i].count = IF d.file[i].err \/ d.file[i].is_dir THEN @ ELSE @ + 1]

\* A cache hit keeps the cache consistent, with one more holder of the entry.
LEMMA HitOK ==
    ASSUME NEW d, NEW h \in [Ids -> Nat], NEW v, CacheOK(d, h, v), NEW i \in d.rbtree,
           ~NotKept(d.file[i]), NEW e, e = HitCache(d, i),
           NEW t, t = IF d.file[i].err \/ d.file[i].is_dir THEN None ELSE i
    PROVE  CacheOK(e, Plus(h, t), v) /\ Touches(d, e, i)
<1> DEFINE f == d.file[i]
           m == queue_insert_head(queue_remove(d, i), i)
           u == [f EXCEPT !.uses = Used(f.uses)]
           x == [u EXCEPT !.count = IF f.err \/ f.is_dir THEN u.count ELSE u.count + 1]
           a == [m EXCEPT !.file[i] = u]
           y == [a EXCEPT !.file[i] = x]
<1>1. d \in Cache /\ i \in Ids /\ f \in File /\ EntryOK(d, i, h[i]) /\ QueueOK(d) /\ ~d.broken
    BY DEF CacheOK, Cache
<1>2. /\ m \in Cache /\ QueueOK(m)
      /\ m.file = d.file /\ m.rbtree = d.rbtree /\ m.current = d.current
      /\ m.open = d.open /\ m.broken = d.broken
    BY <1>1, MoveFields
<1>3. e = [[m EXCEPT !.file[i] = [m.file[i] EXCEPT !.uses = Used(m.file[i].uses)]]
            EXCEPT !.file[i].count = IF f.err \/ f.is_dir THEN @ ELSE @ + 1]
    BY DEF HitCache
<1> HIDE DEF m
<1>4. e = [a EXCEPT !.file[i].count = IF f.err \/ f.is_dir THEN @ ELSE @ + 1]
    BY <1>2, <1>3
<1>5. /\ u \in File /\ u.count = h[i] /\ u.live = f.live /\ u.name = f.name
      /\ u.fd = f.fd /\ u.uniq = f.uniq /\ u.err = f.err /\ u.is_dir = f.is_dir
      /\ u.special = f.special /\ u.close = f.close
  <2>1. Used(f.uses) \in 0 .. MinUses
      BY <1>1, UsedType DEF File
  <2> QED
      BY <1>1, <2>1 DEF File, EntryOK
<1> HIDE DEF u
<1>51. /\ a \in Cache /\ a.file[i] = u /\ \A j \in Ids \ {i} : a.file[j] = m.file[j]
       /\ a.rbtree = m.rbtree /\ a.current = m.current
       /\ a.expire_queue = m.expire_queue /\ a.broken = m.broken /\ a.open = m.open
    BY <1>1, <1>2, <1>5, SetFile
<1> HIDE DEF a
<1>52. e = y
    BY <1>4, <1>51
<1>6. /\ x \in File /\ x.count = (IF t = None THEN h[i] ELSE h[i] + 1)
      /\ x.live = f.live /\ x.name = f.name
      /\ x.fd = f.fd /\ x.uniq = f.uniq /\ x.err = f.err /\ x.is_dir = f.is_dir
      /\ x.special = f.special /\ x.close = f.close
    BY <1>1, <1>5, NoneFacts DEF File
<1> HIDE DEF x
<1>7. /\ y \in Cache /\ y.file[i] = x /\ \A j \in Ids \ {i} : y.file[j] = a.file[j]
      /\ y.rbtree = a.rbtree /\ y.current = a.current
      /\ y.expire_queue = a.expire_queue /\ y.broken = a.broken /\ y.open = a.open
    BY <1>1, <1>51, <1>6, SetFile
<1> HIDE DEF y
<1>8. Touches(d, y, i)
    BY <1>1, <1>2, <1>51, <1>6, <1>7 DEF Touches, QueueOK
<1> DEFINE g == Plus(h, t)
<1>9. /\ g[i] = (IF t = None THEN h[i] ELSE h[i] + 1)
      /\ \A j \in Ids \ {i} : g[j] = h[j]
    BY <1>1, NoneFacts DEF Plus
<1>10. g[i] > 0 => ~f.err /\ ~f.is_dir /\ f.fd # INVALID
    BY <1>1, <1>9 DEF EntryOK, NotKept
<1> HIDE DEF g
<1>11. CacheOK(y, g, v)
    BY <1>6, <1>7, <1>8, <1>9, <1>10, TouchedOK
<1> QED
    BY <1>52, <1>8, <1>11 DEF g

\* A step that only closes descriptors leaves the other requests and the disk.
LEMMA StepKeeps ==
    ASSUME IInv, NEW r \in Reqs, NEW q \in Request, NEW e, Keeps(c, e, RestOf(req, r)),
           CacheOK(e, Plus(RestOf(req, r), q.file),
               RestOwn(req, c.file, r) \cup (IF Opening(q, e.file) THEN {q.of.fd} ELSE {})),
           RequestOK(q, e.file, disk),
           Opening(q, e.file) => /\ e.open[q.of.fd] = q.of.uniq
                                 /\ q.of.fd \notin RestOwn(req, c.file, r)
    PROVE  StepTo(r, q, e, disk)
<1> DEFINE w == RestOwn(req, c.file, r) \cup (IF Opening(q, e.file) THEN {q.of.fd} ELSE {})
<1>1. \A fd \in w : fd \in Fds /\ e.open[fd] # 0
    BY DEF CacheOK, HandlesOK
<1>2. KeepsHeld(c, e, RestOf(req, r)) /\ \A fd \in Fds : e.open[fd] = 0 \/ e.open[fd] = c.open[fd]
    BY DEF Keeps, KeepsHeld
<1>3. \A fd \in RestOwn(req, c.file, r) : e.open[fd] = c.open[fd]
    BY <1>1, <1>2
<1> HIDE DEF w
<1>4. DiskOK(e.open, disk)
  <2>1. DiskOK(c.open, disk) /\ \A n \in Names : disk[n].uniq \in Nat
      BY DEF IInv, TypeOK, Uniqs
  <2>2. Names # {}
      BY OpenFileAssumption
  <2>3. \A fd \in Fds, n \in Names : e.open[fd] = disk[n].uniq => disk[n].kind # "dir"
      BY <1>2, <2>1 DEF DiskOK
  <2>4. \A fd \in Fds : \E n \in Names : e.open[fd] <= disk[n].uniq
      BY <1>2, <2>1, <2>2 DEF DiskOK
  <2> QED
      BY <2>1, <2>3, <2>4 DEF DiskOK
<1> QED
    BY <1>2, <1>3, <1>4 DEF StepTo

\* A holder added and then removed changes nothing.
LEMMA PlusMinus ==
    ASSUME NEW h \in [Ids -> Nat], NEW i \in Ids
    PROVE  /\ Minus(Plus(h, i), i) = h
           /\ Plus(h, i) \in [Ids -> Nat] /\ Plus(h, i)[i] > 0
<1> DEFINE p == Plus(h, i)
           m == Minus(p, i)
<1>1. p \in [Ids -> Nat] /\ p[i] = h[i] + 1 /\ \A j \in Ids \ {i} : p[j] = h[j]
    BY NoneFacts DEF Plus
<1> HIDE DEF p
<1>2. DOMAIN m = Ids /\ m[i] = p[i] - 1 /\ \A j \in Ids \ {i} : m[j] = p[j]
    BY <1>1 DEF Minus
<1>3. m = [j \in Ids |-> m[j]]
    BY <1>1 DEF Minus
<1> HIDE DEF m
<1>4. \A j \in Ids : m[j] = h[j]
    BY <1>1, <1>2
<1>5. m = h
    BY <1>3, <1>4
<1> QED
    BY <1>1, <1>5 DEF m, p

\* The cache and the hold of request r before a step.
LEMMA Before ==
    ASSUME IInv, NEW r \in Reqs
    PROVE  /\ RestOf(req, r) \in [Ids -> Nat] /\ HoldOf(req) \in [Ids -> Nat]
           /\ HoldOf(req) = Plus(RestOf(req, r), req[r].file)
           /\ CacheOK(c, Plus(RestOf(req, r), req[r].file), OwnOf(req, c.file))
           /\ req[r] \in Request /\ RequestOK(req[r], c.file, disk)
           /\ req[r].file \in Ids \cup {None}
           /\ req[r].file # None => /\ HoldOf(req)[req[r].file] > 0
                                    /\ Minus(HoldOf(req), req[r].file) = RestOf(req, r)
<1>1. req[r] \in Request /\ RequestOK(req[r], c.file, disk)
    BY DEF IInv, TypeOK
<1>2. req[r].file \in Ids \cup {None} /\ (req[r].file # None => req[r].cached)
    BY <1>1 DEF Request, RequestOK
<1>3. HoldOf(req) = Plus(RestOf(req, r), req[r].file)
    BY <1>2, HoldSplit
<1>4. RestOf(req, r) \in [Ids -> Nat] /\ HoldOf(req) \in [Ids -> Nat]
    BY RestType
<1>5. req[r].file # None => /\ HoldOf(req)[req[r].file] > 0
                            /\ Minus(HoldOf(req), req[r].file) = RestOf(req, r)
    BY <1>2, <1>3, <1>4, PlusMinus
<1>6. CacheOK(c, Plus(RestOf(req, r), req[r].file), OwnOf(req, c.file))
    BY <1>3 DEF IInv
<1> QED
    BY <1>1, <1>2, <1>3, <1>4, <1>5, <1>6

\* Before the result of the thread is there a request has no descriptor of its own.
LEMMA NotOpening ==
    ASSUME IInv, NEW r \in Reqs, req[r].pc \in {"idle", "stat", "open"}
    PROVE  /\ OwnOf(req, c.file) = RestOwn(req, c.file, r)
           /\ CacheOK(c, Plus(RestOf(req, r), req[r].file), RestOwn(req, c.file, r))
<1>1. ~Opening(req[r], c.file)
  <2>1. req[r] \in Request /\ RequestOK(req[r], c.file, disk)
      BY Before
  <2>2. CASE req[r].pc = "idle"
      BY <2>1, <2>2 DEF RequestOK, NoRequest, NoInfo, Opening
  <2>3. CASE req[r].pc \in {"stat", "open"}
      BY <2>1, <2>3 DEF RequestOK, Opening
  <2> QED
      BY <2>2, <2>3
<1>2. OwnOf(req, c.file) = RestOwn(req, c.file, r)
    BY <1>1, OwnSplit
<1> QED
    BY <1>2, Before

\* An idle request holds no entry and owns no handle.
LEMMA Idle ==
    ASSUME IInv, NEW r \in Reqs, req[r].pc = "idle"
    PROVE  CacheOK(c, RestOf(req, r), RestOwn(req, c.file, r)) /\ req[r] = NoRequest
<1>1. req[r] = NoRequest
    BY Before DEF RequestOK
<1>2. Plus(RestOf(req, r), req[r].file) = RestOf(req, r)
    BY <1>1 DEF NoRequest, Plus
<1> QED
    BY <1>1, <1>2, NotOpening

\* Doing nothing keeps what is held.
LEMMA KeepsSame ==
    ASSUME NEW h
    PROVE  Keeps(c, c, h)
    BY DEF Keeps

\* A stuttering step preserves the invariant.
LEMMA Stutter ==
    ASSUME IInv, UNCHANGED vars
    PROVE  IInv'
<1>1. c' = c /\ req' = req /\ disk' = disk
    BY DEF vars
<1>2. /\ CacheOK(c', HoldOf(req'), OwnOf(req', c'.file))
      /\ \A s \in Reqs : RequestOK(req'[s], c'.file, disk')
      /\ OpenersOK(req', c'.file, c'.open)
      /\ DiskOK(c'.open, disk')
    BY <1>1 DEF IInv
<1>3. TypeOK'
    BY <1>1 DEF IInv, TypeOK
<1> QED
    BY <1>2, <1>3 DEF IInv

\* The empty open_file_info and the idle request are well formed.
LEMMA NoTypes == NoInfo \in OpenFileInfo /\ NoRequest \in Request
<1>1. 0 \in Uniqs
    BY OpenFileAssumption, FS_CardinalityType DEF Uniqs
<1>2. NoInfo \in OpenFileInfo
    BY <1>1 DEF NoInfo, OpenFileInfo
<1> QED
    BY <1>2 DEF NoRequest, Request

\* A task is posted, or is not, for a name without a handle in the cache.
LEMMA PostNew ==
    ASSUME IInv, NEW r \in Reqs, NEW n \in Names, req[r].pc = "idle", NEW cached \in BOOLEAN,
           post_task(r, n, c, cached, NoInfo, None), UNCHANGED disk
    PROVE  IInv'
<1> DEFINE q == [pc |-> "open", name |-> n, cached |-> cached, of |-> NoInfo, file |-> None]
<1>1. CASE c' = c /\ req' = [req EXCEPT ![r] = q]
  <2>1. q \in Request /\ ~Opening(q, c.file) /\ RequestOK(q, c.file, disk)
    <3>1. q \in Request
        BY NoTypes DEF Request
    <3>2. q.of.fd = INVALID /\ ~q.of.special /\ ~q.of.err /\ ~q.of.ok /\ ~q.of.is_dir
        BY DEF NoInfo
    <3> QED
        BY <3>1, <3>2 DEF Opening, RequestOK
  <2>2. Plus(RestOf(req, r), q.file) = RestOf(req, r)
      BY DEF Plus
  <2> HIDE DEF q
  <2>3. StepTo(r, q, c, disk)
      BY <2>1, <2>2, Idle, KeepsSame, StepKeeps
  <2> QED
      BY <1>1, <2>1, <2>3, StepOK
<1>2. CASE UNCHANGED <<c, req>>
    BY <1>2, Stutter DEF vars
<1> QED
    BY <1>1, <1>2 DEF post_task, NoInfo, INVALID

\* Using an entry keeps what is held.
LEMMA TouchesKeeps ==
    ASSUME NEW d, NEW e, NEW i, Touches(d, e, i), NEW h
    PROVE  Keeps(d, e, h)
    BY DEF Touches, Keeps

\* ngx_get_open_file_from_cache finds an entry that has to be retested.
LEMMA PostRetest ==
    ASSUME IInv, NEW r \in Reqs, NEW n \in Names, open_retest(r, n)
    PROVE  IInv'
<1>1. PICK i \in ngx_open_file_lookup(c, n) :
        LET f == c.file[i]
            held == TakeForRetest(f, i)
        IN /\ ~NotKept(f) /\ ~f.fresh
           /\ post_task(r, n, IF held = None THEN c ELSE Counted(c, i), TRUE,
                [NoInfo EXCEPT !.fd = f.fd, !.uniq = f.uniq, !.test_dir = f.is_dir], held)
    BY DEF open_retest, Counted
<1> DEFINE f == c.file[i]
           held == TakeForRetest(f, i)
           d == IF held = None THEN c ELSE Counted(c, i)
           of == [NoInfo EXCEPT !.fd = f.fd, !.uniq = f.uniq, !.test_dir = f.is_dir]
           q == [pc |-> IF of.fd # INVALID \/ of.test_dir THEN "stat" ELSE "open",
                 name |-> n, cached |-> TRUE, of |-> of, file |-> held]
           e == ngx_close_cached_file(Uncounted(d, held), held, MinUses)
           rest == RestOf(req, r)
           w == RestOwn(req, c.file, r)
<1>2. req[r].pc = "idle" /\ disk' = disk /\ ~NotKept(f)
    BY <1>1 DEF open_retest
<1>3. \/ c' = d /\ req' = [req EXCEPT ![r] = q]
      \/ c' = (IF held = None THEN d ELSE e) /\ req' = req
    BY <1>1 DEF post_task, Uncounted
<1>4. i \in c.rbtree /\ f.name = n
    BY DEF ngx_open_file_lookup
<1>5. CacheOK(c, rest, w) /\ req[r] = NoRequest /\ rest \in [Ids -> Nat]
    BY <1>2, Idle, Before
<1>6. c \in Cache /\ i \in Ids /\ f \in File /\ EntryOK(c, i, rest[i])
    BY <1>4, <1>5 DEF CacheOK, Cache
<1>7. /\ of \in OpenFileInfo /\ of.fd = f.fd /\ of.uniq = f.uniq /\ of.test_dir = f.is_dir
      /\ ~of.err /\ ~of.ok /\ ~of.is_dir /\ ~of.special
  <2>1. NoInfo \in OpenFileInfo /\ ~NoInfo.err /\ ~NoInfo.ok /\ ~NoInfo.is_dir /\ ~NoInfo.special
      BY NoTypes DEF NoInfo
  <2> QED
      BY <1>6, <2>1 DEF OpenFileInfo, File
<1> HIDE DEF of, rest, w
<1>8. held = None \/ held = i
    BY DEF TakeForRetest
<1>9. q \in Request
    BY <1>6, <1>7, <1>8 DEF Request
<1>10. CASE held = None
  <2>1. f.fd = INVALID
      BY <1>6, <1>10, NoneFacts DEF TakeForRetest, EntryOK
  <2>2. RequestOK(q, c.file, disk) /\ ~Opening(q, c.file)
      BY <1>7, <1>10, <2>1 DEF RequestOK, Opening
  <2>3. Plus(rest, q.file) = rest
      BY <1>10 DEF Plus
  <2>4. d = c
      BY <1>10
  <2> HIDE DEF q, d
  <2>5. StepTo(r, q, c, disk)
      BY <1>5, <1>9, <2>2, <2>3, KeepsSame, StepKeeps DEF rest, w
  <2>6. CASE c' = d /\ req' = [req EXCEPT ![r] = q]
      BY <1>2, <1>9, <2>4, <2>5, <2>6, StepOK
  <2>7. CASE c' = d /\ req' = req
      BY <1>2, <2>4, <2>7, Stutter DEF vars
  <2> QED
      BY <1>3, <1>10, <2>6, <2>7
<1>11. CASE held = i
  <2>1. i # None /\ d = Counted(c, i)
      BY <1>6, <1>11, NoneFacts
  <2>2. ~f.err /\ ~f.is_dir /\ f.fd # INVALID
      BY <1>2, <1>11, <2>1 DEF TakeForRetest, NotKept
  <2> HIDE DEF d
  <2>3. CacheOK(d, Plus(rest, i), w) /\ Touches(c, d, i)
      BY <1>4, <1>5, <2>1, <2>2, CountUp
  <2>4. Keeps(c, d, rest)
      BY <2>3, TouchesKeeps
  <2>5. RequestOK(q, d.file, disk) /\ ~Opening(q, d.file)
    <3>1. d.file[i].fd = f.fd /\ d.file[i].uniq = f.uniq /\ d.file[i].name = f.name
        BY <2>3 DEF Touches
    <3>2. q.pc = "stat"
        BY <1>7, <2>2
    <3>3. q.file = i /\ q.of = of /\ q.cached = TRUE /\ q.name = n
        BY <1>11
    <3> HIDE DEF q
    <3> QED
        BY <1>4, <1>7, <2>1, <3>1, <3>2, <3>3 DEF RequestOK, Opening, Knows
  <2>6. q.file = i
      BY <1>11
  <2> HIDE DEF q
  <2>7. CASE c' = d /\ req' = [req EXCEPT ![r] = q]
    <3>1. StepTo(r, q, d, disk)
        BY <1>9, <2>3, <2>4, <2>5, <2>6, StepKeeps DEF rest, w
    <3> QED
        BY <1>2, <1>9, <2>7, <3>1, StepOK
  <2>8. CASE c' = e /\ req' = req
    <3>1. CacheOK(e, rest, w) /\ Keeps(d, e, rest)
      <4>1. Plus(rest, i) \in [Ids -> Nat] /\ Plus(rest, i)[i] > 0 /\ Minus(Plus(rest, i), i) = rest
          BY <1>5, <1>6, PlusMinus
      <4> DEFINE p == Plus(rest, i)
                 x == ngx_close_cached_file([d EXCEPT !.file[i].count = @ - 1], i, MinUses)
      <4> HIDE DEF p
      <4>2. CacheOK(x, [p EXCEPT ![i] = @ - 1], w) /\ Keeps(d, x, [p EXCEPT ![i] = @ - 1])
          BY <1>6, <2>3, <4>1, GiveBack DEF p
      <4>3. x = e
          BY <1>11 DEF Uncounted
      <4>4. [p EXCEPT ![i] = @ - 1] = rest
          BY <4>1 DEF p, Minus
      <4> QED
          BY <4>2, <4>3, <4>4
    <3> HIDE DEF e
    <3>2. Keeps(c, e, rest)
        BY <2>4, <3>1, KeepsTrans
    <3>3. NoRequest \in Request /\ NoRequest.file = None /\ Plus(rest, NoRequest.file) = rest
        BY NoTypes DEF NoRequest, Plus
    <3>4. ~Opening(NoRequest, e.file) /\ RequestOK(NoRequest, e.file, disk)
        BY DEF NoRequest, NoInfo, Opening, RequestOK
    <3>5. StepTo(r, NoRequest, e, disk)
        BY <3>1, <3>2, <3>3, <3>4, StepKeeps DEF rest, w
    <3>6. req' = [req EXCEPT ![r] = NoRequest]
        BY <1>5, <2>8 DEF IInv, TypeOK
    <3> QED
        BY <1>2, <2>8, <3>3, <3>5, <3>6, StepOK
  <2> QED
      BY <1>3, <1>11, <2>1, <2>7, <2>8
<1> QED
    BY <1>8, <1>10, <1>11, SMTT(60)

\* What is left of a request that was given no handle, or that uses the one of entry i.
Ended(of) == of.ok /\ ~of.is_dir

Using(cached, of, i) ==
    [NoRequest EXCEPT !.pc = "using", !.cached = cached, !.file = i,
                      !.of = [NoInfo EXCEPT !.fd = of.fd, !.uniq = of.uniq]]

\* The fields of a request that has its handle.
LEMMA UsingFacts ==
    ASSUME NEW cached \in BOOLEAN, NEW of \in OpenFileInfo, NEW i \in Ids \cup {None},
           NEW q, q = Using(cached, of, i)
    PROVE  /\ q \in Request /\ q.pc = "using" /\ q.cached = cached /\ q.file = i
           /\ q.of.fd = of.fd /\ q.of.uniq = of.uniq /\ ~q.of.special
<1>1. NoInfo \in OpenFileInfo /\ NoInfo.special = FALSE /\ NoRequest \in Request
    BY NoTypes DEF NoInfo
<1> DEFINE x == [NoInfo EXCEPT !.fd = of.fd, !.uniq = of.uniq]
<1>2. x \in OpenFileInfo /\ x.fd = of.fd /\ x.uniq = of.uniq /\ x.special = FALSE
    BY <1>1 DEF OpenFileInfo
<1>3. q = [NoRequest EXCEPT !.pc = "using", !.cached = cached, !.file = i, !.of = x]
    BY DEF Using
<1> HIDE DEF x
<1> QED
    BY <1>1, <1>2, <1>3 DEF Request

\* The request gets the handle of the entry it holds in cache e, or none.
LEMMA UseEntry ==
    ASSUME IInv, NEW r \in Reqs, NEW e, NEW of \in OpenFileInfo, ~of.special, NEW i,
           NEW t \in Ids \cup {None}, Ended(of) => i = t, Ended(of) <=> t # None,
           Keeps(c, e, RestOf(req, r)),
           CacheOK(e, Plus(RestOf(req, r), t), RestOwn(req, c.file, r)),
           t # None => of.fd = e.file[t].fd /\ of.uniq = e.file[t].uniq,
           use_file(r, e, TRUE, of, i), disk' = disk
    PROVE  IInv'
<1>1. c' = e /\ req' = [req EXCEPT ![r] = IF ~Ended(of) THEN NoRequest ELSE Using(TRUE, of, i)]
    BY DEF use_file, Ended, Using
<1>2. CASE t = None
  <2>1. NoRequest \in Request /\ NoRequest.file = None
      BY NoTypes DEF NoRequest
  <2>2. ~Opening(NoRequest, e.file) /\ RequestOK(NoRequest, e.file, disk)
      BY DEF NoRequest, NoInfo, Opening, RequestOK
  <2>3. StepTo(r, NoRequest, e, disk)
      BY <1>2, <2>1, <2>2, StepKeeps
  <2> QED
      BY <1>1, <1>2, <2>1, <2>3, StepOK
<1>3. CASE t # None
  <2> DEFINE q == Using(TRUE, of, t)
  <2>1. /\ q \in Request /\ q.pc = "using" /\ q.cached = TRUE /\ q.file = t
        /\ q.of.fd = of.fd /\ q.of.uniq = of.uniq /\ ~q.of.special
      BY UsingFacts
  <2> HIDE DEF q
  <2>2. e.file[t].fd # INVALID
    <3>1. t \in Ids /\ RestOf(req, r) \in [Ids -> Nat]
        BY <1>3, Before
    <3>2. Plus(RestOf(req, r), t)[t] > 0
        BY <3>1, PlusMinus
    <3> QED
        BY <3>1, <3>2 DEF CacheOK, EntryOK
  <2>3. ~Opening(q, e.file) /\ RequestOK(q, e.file, disk)
      BY <1>3, <2>1, <2>2 DEF Opening, RequestOK, Knows
  <2>4. StepTo(r, q, e, disk)
      BY <2>1, <2>3, StepKeeps
  <2> QED
      BY <1>1, <1>3, <2>1, <2>4, StepOK DEF q
<1> QED
    BY <1>2, <1>3

\* open_hit preserves the invariant.
LEMMA HitStep ==
    ASSUME IInv, NEW r \in Reqs, NEW n \in Names, open_hit(r, n)
    PROVE  IInv'
<1>1. PICK i \in ngx_open_file_lookup(c, n) :
        LET f == c.file[i]
            of == [NoInfo EXCEPT !.fd = f.fd, !.uniq = f.uniq, !.err = f.err,
                                 !.is_dir = f.is_dir, !.special = f.special,
                                 !.ok = ~f.err]
        IN ~NotKept(f) /\ f.fresh /\ use_file(r, HitCache(c, i), TRUE, of, i)
    BY DEF open_hit, HitCache
<1> DEFINE f == c.file[i]
           of == [NoInfo EXCEPT !.fd = f.fd, !.uniq = f.uniq, !.err = f.err,
                                !.is_dir = f.is_dir, !.special = f.special,
                                !.ok = ~f.err]
           e == HitCache(c, i)
           t == IF f.err \/ f.is_dir THEN None ELSE i
           rest == RestOf(req, r)
           w == RestOwn(req, c.file, r)
<1>2. use_file(r, e, TRUE, of, i) /\ ~NotKept(f) /\ req[r].pc = "idle" /\ disk' = disk
    BY <1>1 DEF open_hit
<1>3. CacheOK(c, rest, w) /\ rest \in [Ids -> Nat]
    BY <1>2, Idle, Before
<1>4. i \in c.rbtree
    BY DEF ngx_open_file_lookup
<1>5. i \in Ids /\ f \in File /\ EntryOK(c, i, rest[i])
    BY <1>3, <1>4 DEF CacheOK, Cache
<1>6. /\ of \in OpenFileInfo /\ of.fd = f.fd /\ of.uniq = f.uniq /\ of.ok = ~f.err
      /\ of.is_dir = f.is_dir /\ ~of.special
  <2> DEFINE b == ~f.err
  <2>1. NoInfo \in OpenFileInfo /\ f.special = FALSE /\ b \in BOOLEAN
      BY <1>5, NoTypes DEF EntryOK, File
  <2>2. /\ f.fd \in Fds \cup {INVALID} /\ f.uniq \in Uniqs /\ f.err \in BOOLEAN
        /\ f.is_dir \in BOOLEAN
      BY <1>5 DEF File
  <2>3. of = [NoInfo EXCEPT !.fd = f.fd, !.uniq = f.uniq, !.err = f.err,
                            !.is_dir = f.is_dir, !.special = FALSE, !.ok = b]
      BY <2>1
  <2> HIDE DEF b, f, of
  <2>4. /\ of \in OpenFileInfo /\ of.fd = f.fd /\ of.uniq = f.uniq /\ of.ok = b
        /\ of.is_dir = f.is_dir /\ ~of.special
      BY <2>1, <2>2, <2>3 DEF OpenFileInfo
  <2> QED
      BY <2>4 DEF b
<1>7. CacheOK(e, Plus(rest, t), w) /\ Touches(c, e, i)
    BY <1>2, <1>3, <1>4, HitOK
<1> HIDE DEF e, of, rest, w
<1>8. Keeps(c, e, rest) /\ e.file[i].fd = f.fd /\ e.file[i].uniq = f.uniq
  <2>1. Keeps(c, e, rest)
      BY <1>7, TouchesKeeps
  <2> QED
      BY <1>7, <2>1 DEF Touches
<1>9. t \in Ids \cup {None} /\ (t # None => t = i) /\ (t # None <=> ~(f.err \/ f.is_dir))
    BY <1>5, NoneFacts
<1> HIDE DEF t, f
<1>10. (Ended(of) => i = t) /\ (Ended(of) <=> t # None)
    BY <1>6, <1>9 DEF Ended
<1>11. t # None => of.fd = e.file[t].fd /\ of.uniq = e.file[t].uniq
    BY <1>6, <1>8, <1>9
<1> QED
    BY <1>2, <1>6, <1>7, <1>8, <1>9, <1>10, <1>11, UseEntry DEF rest, w

\* ngx_async_open_thread_event_handler: the result is saved, and used as the cache says.
LEMMA SavedStep ==
    ASSUME IInv, NEW r \in Reqs, req[r].pc = "done", req[r].cached, NEW choice \in SaveChoices,
           NEW s, s = ngx_save_open_file_to_cache(c, req[r].file, req[r].name, req[r].of, choice),
           use_file(r, s.c, TRUE, s.of, s.file), disk' = disk
    PROVE  IInv'
<1> DEFINE q == req[r]
           i == q.file
           of == q.of
           n == q.name
           own == OwnOf(req, c.file)
           rest == RestOf(req, r)
<1>1. /\ rest \in [Ids -> Nat] /\ HoldOf(req) \in [Ids -> Nat]
      /\ HoldOf(req) = Plus(rest, i)
      /\ CacheOK(c, HoldOf(req), own)
      /\ q \in Request /\ RequestOK(q, c.file, disk)
      /\ i \in Ids \cup {None}
      /\ i # None => HoldOf(req)[i] > 0 /\ Minus(HoldOf(req), i) = rest
    BY Before
<1>2. of \in OpenFileInfo /\ ResultOK(of) /\ ~of.special /\ n \in Names
    BY <1>1 DEF Request, RequestOK
<1>3. RestOwn(req, c.file, r) = own \ {of.fd}
    BY RestOwnIs
<1>4. Opening(q, c.file) => of.fd \in own /\ c.open[of.fd] = of.uniq
    BY DEF IInv, OpenersOK, OwnOf
<1>5. s = IF i = None THEN save_lookup(c, n, of, choice) ELSE save_retested(c, i, n, of, choice)
    BY DEF ngx_save_open_file_to_cache
<1>6. SaveOK(c, s, rest, own \ {of.fd})
  <2>1. CASE i = None
    <3>1. Given(c, of, own)
        BY <1>2, <1>4, <2>1 DEF Given, Opening
    <3>2. HoldOf(req) = rest
        BY <1>1, <2>1 DEF Plus
    <3> HIDE DEF q, i, of, n, own, rest
    <3> QED
        BY <1>1, <1>2, <1>5, <2>1, <3>1, <3>2, LookupSaved
  <2>2. CASE i # None
    <3>1. i \in Ids /\ n = c.file[i].name
        BY <1>1, <2>2 DEF RequestOK
    <3>2. Retested(c, i, of, own)
      <4>1. of.fd # INVALID /\ of.uniq = c.file[i].uniq => of.fd = c.file[i].fd
          BY <1>1, <2>2 DEF RequestOK, Knows
      <4>2. of.fd # INVALID /\ of.uniq # c.file[i].uniq => Opening(q, c.file)
          BY <2>2 DEF Opening
      <4> QED
          BY <1>2, <1>4, <4>1, <4>2 DEF Retested
    <3> HIDE DEF q, i, of, n, own, rest
    <3>3. SaveOK(c, s, Minus(HoldOf(req), i), own \ {of.fd})
        BY <1>1, <1>2, <1>5, <2>2, <3>1, <3>2, RetestSaved
    <3> QED
        BY <1>1, <2>2, <3>3
  <2> QED
      BY <2>1, <2>2
<1>7. /\ s.file \in Ids \cup {None}
      /\ CacheOK(s.c, Plus(rest, s.file), RestOwn(req, c.file, r))
      /\ Keeps(c, s.c, rest)
      /\ s.of \in OpenFileInfo /\ ~s.of.special
      /\ Ended(s.of) <=> s.file # None
      /\ s.file # None => s.of.fd = s.c.file[s.file].fd /\ s.of.uniq = s.c.file[s.file].uniq
    BY <1>3, <1>6 DEF SaveOK, Ended
<1> QED
    BY <1>7, UseEntry

\* The file was opened without the cache.
LEMMA UncachedStep ==
    ASSUME IInv, NEW r \in Reqs, req[r].pc = "done", ~req[r].cached,
           use_file(r, c, FALSE, req[r].of, None), disk' = disk
    PROVE  IInv'
<1> DEFINE q == req[r]
           of == q.of
           w == RestOwn(req, c.file, r)
           rest == RestOf(req, r)
           u == Using(FALSE, of, None)
<1>1. q \in Request /\ RequestOK(q, c.file, disk) /\ HoldOf(req) = Plus(rest, q.file)
    BY Before
<1>2. of \in OpenFileInfo /\ ResultOK(of) /\ ~of.special /\ q.file = None
    BY <1>1 DEF Request, RequestOK
<1>3. c' = c /\ req' = [req EXCEPT ![r] = IF ~Ended(of) THEN NoRequest ELSE u]
    BY <1>2 DEF use_file, Ended, Using
<1>4. CacheOK(c, rest, OwnOf(req, c.file)) /\ \A h : Keeps(c, c, h)
    BY <1>1, <1>2, KeepsSame DEF IInv, Plus
<1>5. Opening(q, c.file) <=> Ended(of)
    BY <1>2 DEF Opening, Ended, ResultOK
<1>6. w = OwnOf(req, c.file) \ {of.fd}
    BY RestOwnIs
<1>7. OwnOf(req, c.file) = w \cup (IF Opening(q, c.file) THEN {of.fd} ELSE {})
    BY OwnSplit
<1> HIDE DEF w
<1>8. CASE ~Ended(of)
  <2>1. NoRequest \in Request /\ Plus(rest, NoRequest.file) = rest
      BY NoTypes DEF NoRequest, Plus
  <2>2. ~Opening(NoRequest, c.file) /\ RequestOK(NoRequest, c.file, disk)
      BY DEF NoRequest, NoInfo, Opening, RequestOK
  <2>3. CacheOK(c, rest, w)
      BY <1>4, <1>5, <1>7, <1>8
  <2>4. StepTo(r, NoRequest, c, disk)
      BY <1>4, <2>1, <2>2, <2>3, StepKeeps DEF w
  <2> QED
      BY <1>3, <1>8, <2>1, <2>4, StepOK
<1>9. CASE Ended(of)
  <2>1. /\ u \in Request /\ u.pc = "using" /\ u.cached = FALSE /\ u.file = None
        /\ u.of.fd = of.fd /\ u.of.uniq = of.uniq /\ ~u.of.special
    <3> HIDE DEF q, of
    <3>1. ASSUME NEW b \in BOOLEAN, NEW x, x = Using(b, of, None)
          PROVE  /\ x \in Request /\ x.pc = "using" /\ x.cached = b /\ x.file = None
                 /\ x.of.fd = of.fd /\ x.of.uniq = of.uniq /\ ~x.of.special
        BY <1>2, <3>1, UsingFacts
    <3>2. u = Using(FALSE, of, None)
        OBVIOUS
    <3> HIDE DEF u
    <3> QED
        BY <3>1, <3>2
  <2> HIDE DEF u
  <2>2. of.fd # INVALID
      BY <1>2, <1>9 DEF Ended, ResultOK
  <2>3. Opening(u, c.file) /\ RequestOK(u, c.file, disk)
      BY <2>1, <2>2 DEF Opening, RequestOK
  <2>4. CacheOK(c, Plus(rest, u.file), w \cup (IF Opening(u, c.file) THEN {u.of.fd} ELSE {}))
      BY <1>4, <1>5, <1>7, <1>9, <2>1, <2>3 DEF Plus
  <2>5. c.open[u.of.fd] = u.of.uniq /\ u.of.fd \notin w
    <3>1. c.open[of.fd] = of.uniq
        BY <1>5, <1>9 DEF IInv, OpenersOK
    <3>2. of.fd \notin w
        BY <1>6
    <3> QED
        BY <2>1, <3>1, <3>2
  <2>6. StepTo(r, u, c, disk)
      BY <1>4, <2>1, <2>3, <2>4, <2>5, StepKeeps DEF w
  <2> QED
      BY <1>3, <1>9, <2>1, <2>6, StepOK
<1> QED
    BY <1>8, <1>9

\* The pool of the request is destroyed.
LEMMA CleanupStep ==
    ASSUME IInv, NEW r \in Reqs, cleanup(r)
    PROVE  IInv'
<1> DEFINE q == req[r]
           i == q.file
           w == RestOwn(req, c.file, r)
           rest == RestOf(req, r)
<1>1. /\ q.pc \in {"using", "refused"} /\ disk' = disk /\ req' = [req EXCEPT ![r] = NoRequest]
    BY DEF cleanup
<1>2. /\ rest \in [Ids -> Nat] /\ HoldOf(req) \in [Ids -> Nat]
      /\ HoldOf(req) = Plus(rest, i)
      /\ CacheOK(c, HoldOf(req), OwnOf(req, c.file))
      /\ q \in Request /\ RequestOK(q, c.file, disk)
      /\ i \in Ids \cup {None}
      /\ i # None => HoldOf(req)[i] > 0 /\ Minus(HoldOf(req), i) = rest
    BY Before
<1>3. q.pc = "using" /\ q.of.fd # INVALID /\ (q.cached <=> i # None)
    BY <1>1, <1>2 DEF RequestOK
<1>4. NoRequest \in Request /\ Plus(rest, NoRequest.file) = rest
    BY NoTypes DEF NoRequest, Plus
<1>5. \A e : ~Opening(NoRequest, e.file) /\ RequestOK(NoRequest, e.file, disk)
    BY DEF NoRequest, NoInfo, Opening, RequestOK
<1>6. SUFFICES ASSUME NEW e, c' = e
               PROVE  CacheOK(e, rest, w) /\ Keeps(c, e, rest)
  <2> DEFINE e == c'
  <2>1. CacheOK(e, rest, w) /\ Keeps(c, e, rest)
      BY <1>6
  <2> HIDE DEF e
  <2>2. StepTo(r, NoRequest, e, disk)
      BY <1>4, <1>5, <2>1, StepKeeps
  <2>3. c' = e
      BY DEF e
  <2> QED
      BY <1>1, <1>4, <2>2, <2>3, StepOK
<1>7. w = OwnOf(req, c.file) \ {q.of.fd}
    BY RestOwnIs
<1>8. OwnOf(req, c.file) = w \cup (IF Opening(q, c.file) THEN {q.of.fd} ELSE {})
    BY OwnSplit
<1>9. CASE q.cached
  <2> DEFINE d == ngx_close_cached_file([c EXCEPT !.file[i].count = @ - 1], i, MinUses)
  <2>1. PICK drop \in 0 .. 2 : c' = ngx_expire_old_cached_files(d, drop)
      BY <1>9 DEF cleanup
  <2>2. CacheOK(d, rest, OwnOf(req, c.file)) /\ Keeps(c, d, rest)
    <3>1. i \in Ids /\ HoldOf(req)[i] > 0 /\ [HoldOf(req) EXCEPT ![i] = @ - 1] = rest
        BY <1>2, <1>3, <1>9 DEF Minus
    <3> DEFINE h == HoldOf(req)
               g == [h EXCEPT ![i] = @ - 1]
    <3>2. CacheOK(c, h, OwnOf(req, c.file)) /\ h \in [Ids -> Nat] /\ h[i] > 0 /\ g = rest
        BY <1>2, <3>1
    <3> HIDE DEF h
    <3>3. CacheOK(d, g, OwnOf(req, c.file)) /\ Keeps(c, d, g)
        BY <3>1, <3>2, GiveBack
    <3> QED
        BY <3>2, <3>3
  <2>3. OwnOf(req, c.file) = w
      BY <1>3, <1>8, <1>9 DEF Opening
  <2>4. drop \in 0 .. 3 /\ e = ngx_expire_old_cached_files(d, drop)
      BY <1>6, <2>1
  <2> HIDE DEF d, w, rest
  <2>5. CacheOK(e, rest, w) /\ Keeps(d, e, rest)
      BY <1>2, <2>2, <2>3, <2>4, ExpireOK
  <2> QED
      BY <2>2, <2>5, KeepsTrans
<1>10. CASE ~q.cached
  <2>1. c' = ngx_close_file(c, q.of.fd) /\ i = None
      BY <1>3, <1>10 DEF cleanup
  <2>2. Opening(q, c.file) /\ rest = HoldOf(req) /\ q.of.fd \in OwnOf(req, c.file)
      BY <1>2, <1>3, <1>8, <2>1 DEF Opening, Plus
  <2>3. e = CloseOwn(c, q.of)
      BY <1>3, <1>6, <2>1 DEF CloseOwn
  <2> HIDE DEF w, rest
  <2>4. CacheOK(e, HoldOf(req), OwnOf(req, c.file) \ {q.of.fd}) /\ Keeps(c, e, HoldOf(req))
      BY <1>2, <2>2, <2>3, CloseOwnOK
  <2> QED
      BY <1>7, <2>2, <2>4
<1> QED
    BY <1>9, <1>10

\* The thread is done with request r.
DoneWith(r, of) == [[req[r] EXCEPT !.of = of] EXCEPT !.pc = "done"]

\* The fields of a request whose thread has finished.
LEMMA FinishFacts ==
    ASSUME req \in [Reqs -> Request], NEW r \in Reqs, NEW of \in OpenFileInfo, Finish(r, of),
           NEW q, q = DoneWith(r, of)
    PROVE  /\ q \in Request /\ req' = [req EXCEPT ![r] = q]
           /\ q.pc = "done" /\ q.of = of
           /\ q.name = req[r].name /\ q.cached = req[r].cached /\ q.file = req[r].file
<1> DEFINE p == req[r]
           a == [p EXCEPT !.of = of]
           b == [a EXCEPT !.pc = "done"]
           m == [req EXCEPT ![r] = a]
<1>1. p \in Request
    OBVIOUS
<1>2. /\ a \in Request /\ a.of = of /\ a.name = p.name /\ a.cached = p.cached /\ a.file = p.file
    BY <1>1 DEF Request
<1> HIDE DEF a
<1>3. /\ b \in Request /\ b.pc = "done" /\ b.of = of
      /\ b.name = p.name /\ b.cached = p.cached /\ b.file = p.file
    BY <1>2 DEF Request
<1>4. req' = [m EXCEPT ![r].pc = "done"]
    BY DEF Finish, a
<1>5. m \in [Reqs -> Request] /\ m[r] = a
    BY <1>2
<1>6. [m EXCEPT ![r].pc = "done"] = [m EXCEPT ![r] = b]
    BY <1>5
<1>7. q = b
    BY DEF DoneWith, a
<1> HIDE DEF b
<1>8. [m EXCEPT ![r] = b] = [req EXCEPT ![r] = b]
    BY <1>2
<1> QED
    BY <1>3, <1>4, <1>6, <1>7, <1>8

\* The thread ends without a descriptor of its own.
LEMMA EndsClosed ==
    ASSUME IInv, NEW r \in Reqs, req[r].pc \in {"stat", "open"}, NEW of \in OpenFileInfo,
           ResultOK(of), ~of.special,
           of.fd # INVALID => /\ req[r].file # None /\ of.fd = req[r].of.fd
                              /\ of.uniq = req[r].of.uniq,
           Finish(r, of), c' = c, disk' = disk
    PROVE  IInv'
<1> DEFINE q == DoneWith(r, of)
           w == RestOwn(req, c.file, r)
           rest == RestOf(req, r)
<1>1. /\ q \in Request /\ req' = [req EXCEPT ![r] = q]
      /\ q.pc = "done" /\ q.of = of
      /\ q.name = req[r].name /\ q.cached = req[r].cached /\ q.file = req[r].file
    BY FinishFacts DEF IInv, TypeOK
<1> HIDE DEF q
<1>2. RequestOK(req[r], c.file, disk)
    BY Before
<1>3. req[r].file # None => Knows(req[r], c.file)
    BY <1>2 DEF RequestOK
<1>4. ~Opening(q, c.file) /\ RequestOK(q, c.file, disk)
  <2>1. of.fd # INVALID => q.file # None /\ Knows(q, c.file)
      BY <1>1, <1>3 DEF Knows
  <2>2. ~Opening(q, c.file)
      BY <1>1, <2>1 DEF Opening, Knows
  <2>3. q.name \in Names /\ (q.file # None => q.name = c.file[q.file].name /\ q.cached)
      BY <1>1, <1>2 DEF RequestOK
  <2> QED
      BY <1>1, <2>1, <2>2, <2>3 DEF RequestOK
<1>5. CacheOK(c, Plus(rest, q.file), w)
    BY <1>1, NotOpening
<1>6. StepTo(r, q, c, disk)
    BY <1>1, <1>4, <1>5, KeepsSame, StepKeeps
<1> QED
    BY <1>1, <1>6, StepOK

\* stat_failed preserves the invariant.
LEMMA StatFailedStep ==
    ASSUME IInv, NEW r \in Reqs, stat_failed(r)
    PROVE  IInv'
<1> DEFINE p == req[r]
           of == [p.of EXCEPT !.fd = INVALID, !.err = TRUE]
<1>1. p \in Request /\ RequestOK(p, c.file, disk) /\ p.pc \in {"stat", "open"}
      /\ c' = c /\ disk' = disk /\ Finish(r, of)
    BY Before DEF stat_failed
<1>2. p.of \in OpenFileInfo /\ ~p.of.ok /\ ~p.of.is_dir /\ ~p.of.special
    BY <1>1 DEF Request, RequestOK
<1>3. of \in OpenFileInfo /\ of.fd = INVALID /\ of.err /\ ~of.ok /\ ~of.is_dir /\ ~of.special
    BY <1>2 DEF OpenFileInfo
<1> HIDE DEF of
<1>4. ResultOK(of)
    BY <1>3 DEF ResultOK
<1> QED
    BY <1>1, <1>3, <1>4, EndsClosed

\* Handles of special files are closed by the request that is refused them although
\* their entries keep them: without such files a handle is closed by its owner.
NoSpecialFiles == "special" \notin Kinds

\* What the disk holds under a name.
LEMMA OnDisk ==
    ASSUME IInv, NoSpecialFiles, NEW n \in Names
    PROVE  /\ disk[n].uniq \in Uniqs /\ disk[n].uniq \in Nat /\ disk[n].uniq > 0
           /\ disk[n].kind # "special"
<1>1. disk[n].uniq \in Uniqs /\ disk[n].kind \in Kinds /\ DiskOK(c.open, disk)
    BY DEF IInv, TypeOK
<1>2. disk[n].uniq \in Nat
    BY <1>1 DEF Uniqs
<1> QED
    BY <1>1, <1>2 DEF DiskOK, NoSpecialFiles

\* The handle of an entry that a request holds is open for its file.
LEMMA HeldIsOpen ==
    ASSUME IInv, NEW r \in Reqs, req[r].file # None
    PROVE  /\ req[r].file \in Ids
           /\ c.file[req[r].file].fd \in Fds
           /\ c.open[c.file[req[r].file].fd] = c.file[req[r].file].uniq
<1> DEFINE i == req[r].file
<1>1. i \in Ids /\ HoldOf(req)[i] > 0
    BY Before
<1> HIDE DEF i
<1>2. /\ EntryOK(c, i, HoldOf(req)[i]) /\ HandlesOK(c, OwnOf(req, c.file))
      /\ c.file[i].fd \in Fds \cup {INVALID}
    BY <1>1 DEF IInv, CacheOK, Cache, File
<1>3. c.file[i].fd # INVALID
    BY <1>1, <1>2 DEF EntryOK
<1>4. c.open[c.file[i].fd] = c.file[i].uniq
    BY <1>1, <1>2, <1>3 DEF HandlesOK
<1> QED
    BY <1>1, <1>2, <1>3, <1>4 DEF i

\* thread_stat preserves the invariant.
LEMMA ThreadStatStep ==
    ASSUME IInv, NoSpecialFiles, NEW r \in Reqs, thread_stat(r)
    PROVE  IInv'
<1> DEFINE p == req[r]
           of == p.of
           fi == disk[p.name]
           o == [of EXCEPT !.uniq = fi.uniq, !.is_dir = fi.kind = "dir",
                           !.special = fi.kind = "special", !.ok = TRUE]
           known == (of.fd # INVALID /\ of.uniq = fi.uniq) \/ (of.fd = INVALID /\ fi.kind = "dir")
<1>1. /\ p.pc = "stat" /\ c' = c /\ disk' = disk
      /\ IF known THEN Finish(r, o) ELSE req' = [req EXCEPT ![r].pc = "open"]
    BY DEF thread_stat
<1>2. p \in Request /\ RequestOK(p, c.file, disk)
    BY Before
<1>3. /\ of \in OpenFileInfo /\ ~of.err /\ ~of.ok /\ ~of.is_dir /\ ~of.special
      /\ p.name \in Names
      /\ IF p.file # None THEN Knows(p, c.file) ELSE of.fd = INVALID
    BY <1>1, <1>2 DEF Request, RequestOK
<1>4. fi.uniq \in Uniqs /\ fi.uniq > 0 /\ fi.kind # "special"
    BY <1>3, OnDisk
<1>5. p.file # None => of.fd \in Fds /\ of.fd # INVALID /\ c.open[of.fd] = of.uniq
    BY <1>3, HeldIsOpen, NoneFacts DEF Knows
<1>6. /\ o \in OpenFileInfo /\ o.fd = of.fd /\ o.uniq = fi.uniq /\ o.ok /\ ~o.err
      /\ o.is_dir <=> fi.kind = "dir"
      /\ ~o.special
  <2> DEFINE b == fi.kind = "dir"
             s == fi.kind = "special"
  <2>1. b \in BOOLEAN /\ s = FALSE
      BY <1>4
  <2>2. o = [of EXCEPT !.uniq = fi.uniq, !.is_dir = b, !.special = s, !.ok = TRUE]
      OBVIOUS
  <2> HIDE DEF o, b, s
  <2>3. o \in OpenFileInfo /\ o.fd = of.fd /\ o.uniq = fi.uniq /\ o.ok = TRUE /\ o.err = of.err
        /\ o.is_dir = b /\ o.special = s
      BY <1>3, <1>4, <2>1, <2>2 DEF OpenFileInfo
  <2> QED
      BY <1>3, <2>1, <2>3 DEF b
<1> HIDE DEF o
<1>7. CASE known
  <2>1. of.fd # INVALID => of.uniq = fi.uniq /\ p.file # None
      BY <1>3, <1>7
  <2>2. of.fd # INVALID => fi.kind # "dir"
    <3> SUFFICES ASSUME of.fd # INVALID PROVE fi.kind # "dir"
        OBVIOUS
    <3>1. of.fd \in Fds /\ c.open[of.fd] = fi.uniq
        BY <1>5, <2>1
    <3> QED
        BY <1>3, <3>1 DEF IInv, DiskOK
  <2>3. ResultOK(o)
      BY <1>6, <1>7, <2>2 DEF ResultOK
  <2> QED
      BY <1>1, <1>6, <1>7, <2>1, <2>3, EndsClosed
<1>8. CASE ~known
  <2> DEFINE q == [p EXCEPT !.pc = "open"]
  <2>1. /\ q \in Request /\ q.pc = "open" /\ q.of = of
        /\ q.name = p.name /\ q.cached = p.cached /\ q.file = p.file
      BY <1>2 DEF Request
  <2>2. req' = [req EXCEPT ![r] = q]
      BY <1>1, <1>8
  <2> HIDE DEF q
  <2>3. ~Opening(q, c.file)
      BY <1>3, <2>1 DEF Opening
  <2>4. q.file # None => disk[q.name].uniq # q.of.uniq
      BY <1>5, <1>8, <2>1
  <2>5. RequestOK(q, c.file, disk)
      BY <1>1, <1>2, <2>1, <2>4 DEF RequestOK, Knows
  <2>6. CacheOK(c, Plus(RestOf(req, r), q.file), RestOwn(req, c.file, r))
      BY <1>1, <2>1, NotOpening
  <2>7. StepTo(r, q, c, disk)
      BY <2>1, <2>3, <2>5, <2>6, KeepsSame, StepKeeps
  <2> QED
      BY <1>1, <2>1, <2>2, <2>7, StepOK
<1> QED
    BY <1>7, <1>8

Opened(d, fd, u) == [d EXCEPT !.open[fd] = u]

\* Opening a fresh handle keeps the cache consistent and gives the handle one owner.
LEMMA OpenedOK ==
    ASSUME NEW d, NEW h, NEW w, CacheOK(d, h, w), NEW fd \in Fds, d.open[fd] = 0,
           NEW u \in Uniqs, u # 0, NEW e, e = Opened(d, fd, u)
    PROVE  /\ CacheOK(e, h, w \cup {fd}) /\ fd \notin w /\ e.file = d.file
           /\ e.open[fd] = u /\ \A x \in Fds \ {fd} : e.open[x] = d.open[x]
<1>1. d \in Cache /\ HandlesOK(d, w)
    BY DEF CacheOK
<1>2. /\ e \in Cache /\ e.file = d.file /\ e.rbtree = d.rbtree /\ e.current = d.current
      /\ e.expire_queue = d.expire_queue /\ e.broken = d.broken
      /\ e.open[fd] = u /\ \A x \in Fds \ {fd} : e.open[x] = d.open[x]
  <2> DEFINE y == [d.open EXCEPT ![fd] = u]
  <2>1. y \in [Fds -> Uniqs] /\ y[fd] = u /\ \A x \in Fds \ {fd} : y[x] = d.open[x]
      BY <1>1 DEF Cache
  <2>2. e = [d EXCEPT !.open = y]
      BY DEF Opened
  <2> HIDE DEF y
  <2>3. /\ e \in Cache /\ e.file = d.file /\ e.rbtree = d.rbtree /\ e.current = d.current
        /\ e.expire_queue = d.expire_queue /\ e.broken = d.broken /\ e.open = y
      BY <1>1, <2>1, <2>2 DEF Cache
  <2> QED
      BY <2>1, <2>3
<1>3. fd \notin w /\ \A i \in Ids : d.file[i].fd # fd
  <2>1. fd \notin w
      BY <1>1 DEF HandlesOK
  <2>2. fd # INVALID
      BY NoneFacts
  <2>3. \A i \in Ids : d.file[i].fd # fd
      BY <1>1, <2>2 DEF HandlesOK
  <2> QED
      BY <2>1, <2>3
<1>4. HandlesOK(e, w \cup {fd})
  <2>1. w \cup {fd} \subseteq Fds /\ \A x \in w \cup {fd} : e.open[x] # 0
      BY <1>1, <1>2, <1>3 DEF HandlesOK
  <2>2. \A i \in Ids : d.file[i].fd \in Fds \cup {INVALID}
      BY <1>1 DEF Cache, File
  <2>3. \A i \in Ids : e.file[i].fd # INVALID =>
            /\ e.file[i].fd \notin w \cup {fd}
            /\ e.open[e.file[i].fd] = e.file[i].uniq
            /\ e.file[i].uniq # 0
      BY <1>1, <1>2, <1>3, <2>2 DEF HandlesOK
  <2>4. \A i, j \in Ids : e.file[i].fd # INVALID /\ e.file[i].fd = e.file[j].fd => i = j
      BY <1>1, <1>2 DEF HandlesOK
  <2>5. \A x \in Fds : e.open[x] # 0 => x \in w \cup {fd} \/ \E i \in Ids : e.file[i].fd = x
      BY <1>1, <1>2 DEF HandlesOK
  <2> QED
      BY <2>1, <2>3, <2>4, <2>5 DEF HandlesOK
<1>5. \A i \in Ids : EntryOK(e, i, h[i])
    BY <1>2 DEF CacheOK, EntryOK
<1> QED
    BY <1>2, <1>3, <1>4, <1>5 DEF CacheOK, QueueOK, NamesUnique

\* thread_open preserves the invariant.
LEMMA ThreadOpenStep ==
    ASSUME IInv, NoSpecialFiles, NEW r \in Reqs, thread_open(r)
    PROVE  IInv'
<1> DEFINE p == req[r]
           of == p.of
           fi == disk[p.name]
           fd == CHOOSE x \in FreeFds : \A y \in FreeFds : x <= y
           o == [of EXCEPT !.fd = fd, !.uniq = fi.uniq,
                           !.special = fi.kind = "special", !.ok = TRUE]
           dir == [of EXCEPT !.fd = INVALID, !.uniq = fi.uniq, !.is_dir = TRUE, !.ok = TRUE]
           bad == [of EXCEPT !.fd = INVALID]
<1>1. /\ p.pc = "open" /\ FreeFds # {} /\ disk' = disk
      /\ \/ fi.kind # "dir" /\ Finish(r, o) /\ c' = Opened(c, fd, fi.uniq)
         \/ Finish(r, dir) /\ c' = c
         \/ Finish(r, bad) /\ c' = c
    BY DEF thread_open, Opened
<1>2. p \in Request /\ RequestOK(p, c.file, disk)
    BY Before
<1>3. /\ of \in OpenFileInfo /\ ~of.err /\ ~of.ok /\ ~of.is_dir /\ ~of.special
      /\ p.name \in Names
      /\ p.file # None => Knows(p, c.file) /\ fi.uniq # of.uniq /\ p.cached
                          /\ p.name = c.file[p.file].name
    BY <1>1, <1>2 DEF Request, RequestOK
<1>4. fi.uniq \in Uniqs /\ fi.uniq > 0 /\ fi.uniq \in Nat /\ fi.kind # "special"
    BY <1>3, OnDisk
<1>5. CASE Finish(r, dir) /\ c' = c
  <2>1. dir \in OpenFileInfo /\ dir.fd = INVALID /\ dir.ok /\ ~dir.err /\ dir.is_dir /\ ~dir.special
      BY <1>3, <1>4 DEF OpenFileInfo
  <2> HIDE DEF dir
  <2>2. ResultOK(dir)
      BY <2>1 DEF ResultOK
  <2> QED
      BY <1>1, <1>5, <2>1, <2>2, EndsClosed
<1>6. CASE Finish(r, bad) /\ c' = c
  <2>1. bad \in OpenFileInfo /\ bad.fd = INVALID /\ ~bad.ok /\ ~bad.err /\ ~bad.is_dir /\ ~bad.special
      BY <1>3 DEF OpenFileInfo
  <2> HIDE DEF bad
  <2>2. ResultOK(bad)
      BY <2>1 DEF ResultOK
  <2> QED
      BY <1>1, <1>6, <2>1, <2>2, EndsClosed
<1>7. CASE fi.kind # "dir" /\ Finish(r, o) /\ c' = Opened(c, fd, fi.uniq)
  <2>1. fd \in FreeFds
    <3>1. FreeFds \in SUBSET Nat
        BY DEF FreeFds, Fds
    <3> QED
        BY <1>1, <3>1, LeastElement
  <2> HIDE DEF fd
  <2>2. fd \in Fds /\ c.open[fd] = 0 /\ fd # INVALID
      BY <2>1, NoneFacts DEF FreeFds
  <2>3. /\ o \in OpenFileInfo /\ o.fd = fd /\ o.uniq = fi.uniq /\ o.ok /\ ~o.err
        /\ ~o.is_dir /\ ~o.special
    <3> DEFINE s == fi.kind = "special"
    <3>1. s = FALSE
        BY <1>4
    <3>2. o = [of EXCEPT !.fd = fd, !.uniq = fi.uniq, !.special = s, !.ok = TRUE]
        OBVIOUS
    <3> HIDE DEF s, o
    <3> QED
        BY <1>3, <1>4, <2>2, <3>1, <3>2 DEF OpenFileInfo
  <2> DEFINE q == DoneWith(r, o)
             e == Opened(c, fd, fi.uniq)
             w == RestOwn(req, c.file, r)
             rest == RestOf(req, r)
  <2>4. /\ q \in Request /\ req' = [req EXCEPT ![r] = q]
        /\ q.pc = "done" /\ q.of = o
        /\ q.name = p.name /\ q.cached = p.cached /\ q.file = p.file
      BY <1>7, <2>3, FinishFacts DEF IInv, TypeOK
  <2> HIDE DEF q, o
  <2>5. CacheOK(c, Plus(rest, q.file), w)
      BY <1>1, <2>4, NotOpening
  <2>6. /\ CacheOK(e, Plus(rest, q.file), w \cup {fd}) /\ fd \notin w /\ e.file = c.file
        /\ e.open[fd] = fi.uniq /\ \A x \in Fds \ {fd} : e.open[x] = c.open[x]
    <3> HIDE DEF w, rest
    <3>1. fi.uniq # 0
        BY <1>4
    <3> QED
        BY <1>4, <2>2, <2>5, <3>1, OpenedOK, SMTT(60)
  <2>7. c' = e
      BY <1>7
  <2> HIDE DEF e
  <2>8. q.file # None => q.of.uniq # c.file[q.file].uniq
      BY <1>3, <2>3, <2>4 DEF Knows
  <2>9. Opening(q, e.file)
      BY <2>2, <2>3, <2>4, <2>6, <2>8 DEF Opening
  <2>10. RequestOK(q, e.file, disk)
    <3>1. ResultOK(o)
        BY <2>2, <2>3 DEF ResultOK
    <3> QED
        BY <1>3, <2>3, <2>4, <2>6, <2>8, <3>1 DEF RequestOK
  <2>11. DiskOK(e.open, disk)
    <3>1. DiskOK(c.open, disk) /\ Names # {}
        BY OpenFileAssumption DEF IInv
    <3>2. ASSUME NEW x \in Fds, NEW n \in Names, e.open[x] = disk[n].uniq
          PROVE  disk[n].kind # "dir"
      <4>1. CASE x = fd
          BY <1>3, <1>7, <2>6, <3>1, <3>2, <4>1 DEF DiskOK
      <4>2. CASE x # fd
          BY <2>6, <3>1, <3>2, <4>2 DEF DiskOK
      <4> QED
          BY <4>1, <4>2
    <3>3. ASSUME NEW x \in Fds
          PROVE  \E n \in Names : e.open[x] <= disk[n].uniq
      <4>1. CASE x = fd
          BY <1>3, <1>4, <2>6, <4>1
      <4>2. CASE x # fd
          BY <2>6, <3>1, <4>2 DEF DiskOK
      <4> QED
          BY <4>1, <4>2
    <3> QED
        BY <3>1, <3>2, <3>3 DEF DiskOK
  <2>12. KeepsHeld(c, e, rest)
      BY <2>6 DEF KeepsHeld
  <2>13. \A x \in w : e.open[x] = c.open[x]
      BY <2>5, <2>6 DEF CacheOK, HandlesOK
  <2>14. StepTo(r, q, e, disk)
      BY <2>3, <2>4, <2>6, <2>9, <2>10, <2>11, <2>12, <2>13 DEF StepTo
  <2> QED
      BY <1>1, <2>4, <2>7, <2>14, StepOK
<1> QED
    BY <1>1, <1>5, <1>6, <1>7

\* The number of the last file.
LEMMA LastFile ==
    ASSUME IInv
    PROVE  /\ LastUniq \in Nat /\ \A n \in Names : disk[n].uniq \in Nat /\ disk[n].uniq <= LastUniq
           /\ \A fd \in Fds : c.open[fd] \in Nat /\ c.open[fd] <= LastUniq
<1>1. DiskOK(c.open, disk) /\ \A n \in Names : disk[n].uniq \in Nat
    BY DEF IInv, TypeOK, Uniqs
<1>2. \E u \in {disk[n].uniq : n \in Names} : \A n \in Names : disk[n].uniq <= u
    BY <1>1 DEF DiskOK
<1>3. LastUniq \in {disk[n].uniq : n \in Names} /\ \A n \in Names : disk[n].uniq <= LastUniq
    BY <1>2 DEF LastUniq
<1>4. LastUniq \in Nat
    BY <1>1, <1>3
<1>5. \A fd \in Fds : c.open[fd] \in Nat
    BY DEF IInv, TypeOK, Cache, Uniqs
<1>6. \A fd \in Fds : c.open[fd] <= LastUniq
  <2> TAKE fd \in Fds
  <2>1. PICK n \in Names : c.open[fd] <= disk[n].uniq
      BY <1>1 DEF DiskOK
  <2> QED
      BY <1>1, <1>3, <1>4, <1>5, <2>1
<1> QED
    BY <1>1, <1>3, <1>4, <1>5, <1>6

\* Another file takes the name: its number is new to every handle and every request.
LEMMA ReplaceStep ==
    ASSUME IInv, NEW n \in Names, NEW kind \in Kinds, replace_file(n, kind)
    PROVE  IInv'
<1> DEFINE u == LastUniq + 1
           D == [disk EXCEPT ![n] = [uniq |-> u, kind |-> kind]]
<1>1. c' = c /\ req' = req /\ disk' = D /\ LastUniq < Cardinality(Names) + MaxChanges
    BY DEF replace_file
<1>2. /\ LastUniq \in Nat /\ \A m \in Names : disk[m].uniq \in Nat /\ disk[m].uniq <= LastUniq
      /\ \A fd \in Fds : c.open[fd] \in Nat /\ c.open[fd] <= LastUniq
    BY LastFile
<1>3. u \in Uniqs /\ u \in Nat /\ u > LastUniq
  <2>1. Cardinality(Names) \in Nat /\ MaxChanges \in Nat
      BY OpenFileAssumption, FS_CardinalityType
  <2> QED
      BY <1>1, <1>2, <2>1 DEF Uniqs
<1>4. D \in [Names -> [uniq: Uniqs, kind: Kinds]] /\ D[n].uniq = u
      /\ \A m \in Names \ {n} : D[m] = disk[m]
    BY <1>3 DEF IInv, TypeOK
<1> HIDE DEF u, D
<1>5. DiskOK(c.open, D)
  <2>1. DiskOK(c.open, disk)
      BY DEF IInv
  <2>2. \A m \in Names : D[m].uniq \in Nat /\ D[m].uniq <= D[n].uniq /\ D[m].uniq > 0
      BY <1>2, <1>3, <1>4, <2>1 DEF DiskOK
  <2>3. \A l, m \in Names : D[l].uniq = D[m].uniq => l = m
    <3> SUFFICES ASSUME NEW l \in Names, NEW m \in Names, D[l].uniq = D[m].uniq PROVE l = m
        OBVIOUS
    <3>1. CASE l # n /\ m # n
        BY <1>4, <2>1, <3>1 DEF DiskOK
    <3>2. \A x \in Names \ {n} : D[x].uniq # u
        BY <1>2, <1>3, <1>4
    <3> QED
        BY <1>4, <3>1, <3>2
  <2>4. \A fd \in Fds, m \in Names : c.open[fd] = D[m].uniq => D[m].kind # "dir"
    <3> SUFFICES ASSUME NEW fd \in Fds, NEW m \in Names, c.open[fd] = D[m].uniq
                 PROVE  D[m].kind # "dir"
        OBVIOUS
    <3>1. m # n
        BY <1>2, <1>3, <1>4
    <3> QED
        BY <1>4, <2>1, <3>1 DEF DiskOK
  <2>5. \A fd \in Fds : \E m \in Names : c.open[fd] <= D[m].uniq
      BY <1>2, <1>3, <1>4
  <2> QED
      BY <2>2, <2>3, <2>4, <2>5 DEF DiskOK
<1>6. ASSUME NEW r \in Reqs PROVE RequestOK(req[r], c.file, D)
  <2>1. req[r] \in Request /\ RequestOK(req[r], c.file, disk)
      BY Before
  <2>2. CASE req[r].pc = "open" /\ req[r].file # None
    <3>1. Knows(req[r], c.file) /\ req[r].name \in Names /\ disk[req[r].name].uniq # req[r].of.uniq
        BY <2>1, <2>2, SMTT(60) DEF RequestOK
    <3>2. \E fd \in Fds : req[r].of.uniq = c.open[fd]
        BY <2>2, <3>1, HeldIsOpen DEF Knows
    <3>3. D[req[r].name].uniq # req[r].of.uniq
        BY <1>2, <1>3, <1>4, <3>1, <3>2
    <3> QED
        BY <2>1, <3>3 DEF RequestOK
  <2>3. CASE ~(req[r].pc = "open" /\ req[r].file # None)
      BY <2>1, <2>3 DEF RequestOK
  <2> QED
      BY <2>2, <2>3
<1>7. TypeOK'
    BY <1>1, <1>4 DEF IInv, TypeOK
<1>8. /\ CacheOK(c', HoldOf(req'), OwnOf(req', c'.file))
      /\ \A s \in Reqs : RequestOK(req'[s], c'.file, disk')
      /\ OpenersOK(req', c'.file, c'.open)
      /\ DiskOK(c'.open, disk')
    BY <1>1, <1>5, <1>6 DEF IInv
<1> QED
    BY <1>7, <1>8 DEF IInv

\* age preserves the invariant.
LEMMA AgeStep ==
    ASSUME IInv, NEW i \in Ids, age(i)
    PROVE  IInv'
<1> DEFINE f == c.file[i]
           x == [f EXCEPT !.fresh = FALSE]
           e == [c EXCEPT !.file[i] = x]
           h == HoldOf(req)
           w == OwnOf(req, c.file)
<1>1. i \in c.rbtree /\ c' = e /\ req' = req /\ disk' = disk
    BY DEF age
<1>2. /\ CacheOK(c, h, w) /\ c \in Cache /\ f \in File /\ QueueOK(c) /\ ~c.broken
      /\ EntryOK(c, i, h[i])
    BY DEF IInv, CacheOK, Cache
<1>3. /\ x \in File /\ x.count = f.count /\ x.live = f.live /\ x.name = f.name
      /\ x.fd = f.fd /\ x.uniq = f.uniq /\ x.err = f.err /\ x.is_dir = f.is_dir
      /\ x.special = f.special /\ x.close = f.close
    BY <1>2 DEF File
<1> HIDE DEF x
<1>4. /\ e \in Cache /\ e.file[i] = x /\ \A j \in Ids \ {i} : e.file[j] = c.file[j]
      /\ e.rbtree = c.rbtree /\ e.current = c.current
      /\ e.expire_queue = c.expire_queue /\ e.broken = c.broken /\ e.open = c.open
    BY <1>2, <1>3, SetFile
<1> HIDE DEF e
<1>5. Touches(c, e, i)
    BY <1>2, <1>3, <1>4 DEF Touches, QueueOK
<1>6. CacheOK(e, h, w)
  <2>1. e.file[i].count = h[i]
      BY <1>2, <1>3, <1>4 DEF EntryOK
  <2>2. h[i] > 0 => ~c.file[i].err /\ ~c.file[i].is_dir /\ c.file[i].fd # INVALID
      BY <1>2 DEF EntryOK
  <2> HIDE DEF h, w
  <2> QED
      BY <1>1, <1>2, <1>5, <2>1, <2>2, TouchedOK
<1>7. \A j \in Ids : /\ e.file[j].fd = c.file[j].fd
                     /\ e.file[j].uniq = c.file[j].uniq
                     /\ e.file[j].name = c.file[j].name
    BY <1>3, <1>4
<1>8. ASSUME NEW r \in Reqs
      PROVE  /\ Opening(req[r], e.file) <=> Opening(req[r], c.file)
             /\ RequestOK(req[r], e.file, disk)
  <2>1. /\ req[r] \in Request /\ RequestOK(req[r], c.file, disk)
        /\ req[r].file \in Ids \cup {None}
      BY Before
  <2>2. Opening(req[r], e.file) <=> Opening(req[r], c.file)
      BY <1>7, <2>1 DEF Opening
  <2>3. RequestOK(req[r], e.file, disk)
      BY <1>7, <2>1 DEF RequestOK, Knows
  <2> QED
      BY <2>2, <2>3
<1>9. OwnOf(req, e.file) = w
    BY <1>8 DEF OwnOf
<1>10. OpenersOK(req, e.file, e.open)
    BY <1>4, <1>8 DEF IInv, OpenersOK
<1>11. TypeOK'
    BY <1>1, <1>4 DEF IInv, TypeOK
<1>12. /\ CacheOK(c', HoldOf(req'), OwnOf(req', c'.file))
       /\ \A s \in Reqs : RequestOK(req'[s], c'.file, disk')
       /\ OpenersOK(req', c'.file, c'.open)
       /\ DiskOK(c'.open, disk')
  <2>1. DiskOK(e.open, disk)
      BY <1>4 DEF IInv
  <2> QED
      BY <1>1, <1>6, <1>8, <1>9, <1>10, <2>1
<1> QED
    BY <1>11, <1>12 DEF IInv

\* The greatest of finitely many numbers.
LEMMA GreatestNumber ==
    ASSUME NEW N \in Nat, NEW f \in [Names -> 1 .. N]
    PROVE  \E m \in Names : \A n \in Names : f[n] <= f[m]
<1> DEFINE B == {u \in Nat : \A n \in Names : f[n] <= u}
           b == CHOOSE x \in B : \A y \in B : x <= y
<1>1. N \in B
    OBVIOUS
<1>2. B \in SUBSET Nat /\ B # {}
    BY <1>1
<1>3. b \in B /\ \A y \in B : b <= y
  <2> HIDE DEF B
  <2> QED
      BY <1>2, LeastElement
<1> HIDE DEF b
<1>4. SUFFICES ASSUME \A m \in Names : f[m] # b PROVE FALSE
    BY <1>3
<1>5. \A n \in Names : f[n] \in Nat /\ f[n] >= 1 /\ f[n] <= b /\ f[n] # b
    BY <1>3, <1>4
<1>6. b \in Nat /\ b >= 1
    BY <1>3, <1>5, OpenFileAssumption
<1>7. b - 1 \in B
    BY <1>5, <1>6
<1> QED
    BY <1>3, <1>6, <1>7

\* The invariant holds initially.
LEMMA InitOK ==
    ASSUME Init
    PROVE  IInv
<1> DEFINE N == Cardinality(Names)
<1>1. N \in Nat /\ MaxChanges \in Nat /\ 0 \in Uniqs
    BY OpenFileAssumption, FS_CardinalityType DEF Uniqs
<1>2. PICK number \in [Names -> 1 .. N] :
        /\ disk = [n \in Names |-> [uniq |-> number[n], kind |-> "file"]]
        /\ \A m, n \in Names : number[m] = number[n] => m = n
    BY DEF Init
<1>3. disk \in [Names -> [uniq: Uniqs, kind: Kinds]]
  <2>1. \A n \in Names : number[n] \in Uniqs
      BY <1>1 DEF Uniqs
  <2>2. "file" \in Kinds
      BY OpenFileAssumption
  <2> QED
      BY <1>2, <2>1, <2>2
<1>4. /\ c.file = [i \in Ids |-> NoFile] /\ c.rbtree = {} /\ c.expire_queue = <<>>
      /\ c.current = 0 /\ c.open = [fd \in Fds |-> 0] /\ c.broken = FALSE
    BY DEF Init
<1>5. c \in Cache
    BY <1>1, NoFileType DEF Init, Cache
<1>6. req \in [Reqs -> Request] /\ \A r \in Reqs : req[r] = NoRequest
    BY NoTypes DEF Init
<1>7. \A r \in Reqs : ~Opening(req[r], c.file) /\ RequestOK(req[r], c.file, disk)
  <2>1. ~Opening(NoRequest, c.file) /\ RequestOK(NoRequest, c.file, disk)
      BY DEF NoRequest, NoInfo, Opening, RequestOK
  <2> QED
      BY <1>6, <2>1
<1>8. OwnOf(req, c.file) = {}
    BY <1>7 DEF OwnOf
<1>9. \A i \in Ids : HoldOf(req)[i] = 0
  <2> TAKE i \in Ids
  <2>1. HoldersOf(req, i) = {}
    <3>1. ~NoRequest.cached
        BY DEF NoRequest
    <3> QED
        BY <1>6, <3>1 DEF HoldersOf
  <2> QED
      BY <2>1, FS_EmptySet DEF HoldOf
<1>10. CacheOK(c, HoldOf(req), OwnOf(req, c.file))
  <2>1. QueueOK(c)
      BY <1>4 DEF QueueOK, NoRepeat, ToSet
  <2>2. c.current = Cardinality(c.rbtree) /\ c.current <= MaxFiles
      BY <1>4, FS_EmptySet, OpenFileAssumption
  <2>3. \A i \in Ids : EntryOK(c, i, 0)
      BY <1>4 DEF EntryOK, NoFile
  <2>4. HandlesOK(c, {})
      BY <1>4 DEF HandlesOK, NoFile
  <2> QED
      BY <1>4, <1>5, <1>8, <1>9, <2>1, <2>2, <2>3, <2>4 DEF CacheOK, NamesUnique
<1>11. DiskOK(c.open, disk)
  <2>1. \A n \in Names : disk[n].uniq = number[n] /\ disk[n].kind = "file" /\ number[n] \in 1 .. N
      BY <1>2
  <2>2. \E m \in Names : \A n \in Names : number[n] <= number[m]
      BY <1>1, GreatestNumber
  <2>3. \A fd \in Fds : c.open[fd] = 0
      BY <1>4
  <2>4. \A fd \in Fds : \E n \in Names : c.open[fd] <= disk[n].uniq
      BY <1>1, <2>1, <2>2, <2>3
  <2> QED
      BY <1>1, <1>2, <2>1, <2>2, <2>4 DEF DiskOK
<1>12. OpenersOK(req, c.file, c.open)
    BY <1>7 DEF OpenersOK
<1> QED
    BY <1>3, <1>5, <1>6, <1>7, <1>10, <1>11, <1>12 DEF IInv, TypeOK

\* Every step of the program, of the threads and of the disk keeps the invariant.
LEMMA NextOK ==
    ASSUME IInv, NoSpecialFiles, [Next]_vars
    PROVE  IInv'
<1>1. ASSUME NEW r \in Reqs, NEW n \in Names, open_miss(r, n) PROVE IInv'
    BY <1>1, PostNew DEF open_miss
<1>2. ASSUME NEW r \in Reqs, NEW n \in Names, open_uncached(r, n) PROVE IInv'
    BY <1>2, PostNew DEF open_uncached
<1>3. ASSUME NEW r \in Reqs, open_done(r) PROVE IInv'
  <2>1. CASE req[r].cached
    <3>1. PICK choice \in SaveChoices :
            use_file(r, ngx_save_open_file_to_cache(c, req[r].file, req[r].name,
                            req[r].of, choice).c, TRUE,
                        ngx_save_open_file_to_cache(c, req[r].file, req[r].name,
                            req[r].of, choice).of,
                        ngx_save_open_file_to_cache(c, req[r].file, req[r].name,
                            req[r].of, choice).file)
        BY <1>3, <2>1 DEF open_done
    <3> QED
        BY <1>3, <2>1, <3>1, SavedStep DEF open_done
  <2>2. CASE ~req[r].cached
      BY <1>3, <2>2, UncachedStep DEF open_done
  <2> QED
      BY <2>1, <2>2
<1>4. CASE UNCHANGED vars
    BY <1>4, Stutter
<1>5. CASE Next
    BY <1>1, <1>2, <1>3, <1>5, PostRetest, HitStep, StatFailedStep, ThreadStatStep,
       ThreadOpenStep, CleanupStep, ReplaceStep, AgeStep DEF Next
<1> QED
    BY <1>4, <1>5

\* The inductive invariant of the open file cache, for any number of requests, names,
\* entries and descriptors, if no name refers to a special file.
THEOREM Invariance ==
    NoSpecialFiles => (Spec => []IInv)
<1> SUFFICES ASSUME NoSpecialFiles PROVE Spec => []IInv
    OBVIOUS
<1>1. Init => IInv
    BY InitOK
<1>2. IInv /\ [Next]_vars => IInv'
    BY NextOK
<1> QED
    BY <1>1, <1>2, PTL DEF Spec

-----------------------------------------------------------------------------
(* The properties of the runs *)

\* The count of holders in the invariant is the properties' count of holders.
LEMMA SameHolders ==
    ASSUME NEW i \in Ids
    PROVE  /\ Holders(i) = HoldersOf(req, i)
           /\ HoldOf(req)[i] = Cardinality(Holders(i))
           /\ Cardinality(Holders(i)) \in Nat
           /\ Holders(i) # {} <=> Cardinality(Holders(i)) > 0
<1>1. Holders(i) = HoldersOf(req, i)
    BY DEF Holders, HoldersOf
<1>2. IsFiniteSet(HoldersOf(req, i)) /\ Cardinality(HoldersOf(req, i)) \in Nat
    BY HoldersFinite
<1>3. Cardinality(HoldersOf(req, i)) = 0 <=> HoldersOf(req, i) = {}
    BY <1>2, FS_EmptySet
<1>4. HoldOf(req)[i] = Cardinality(HoldersOf(req, i))
    BY DEF HoldOf
<1> QED
    BY <1>1, <1>2, <1>3, <1>4

\* An entry is counted once for each request that holds it, requests hold entries of
\* files only, and an entry that left the cache stays exactly as long as it is held,
\* whatever happens to the cache between the post of a task and its completion.
THEOREM CountsHolders ==
    NoSpecialFiles => (Spec => []CountsAgree)
<1> SUFFICES ASSUME NoSpecialFiles PROVE Spec => []CountsAgree
    OBVIOUS
<1>1. IInv => CountsAgree
  <2> SUFFICES ASSUME IInv, NEW i \in Ids
               PROVE  /\ c.file[i].count = Cardinality(Holders(i))
                      /\ Holders(i) # {} => c.file[i].live /\ ~c.file[i].is_dir /\ ~c.file[i].err
                      /\ c.file[i].live /\ i \notin c.rbtree => c.file[i].close /\ Holders(i) # {}
      BY DEF CountsAgree
  <2>1. EntryOK(c, i, HoldOf(req)[i])
      BY DEF IInv, CacheOK
  <2> QED
      BY <2>1, SameHolders DEF EntryOK
<1> QED
    BY <1>1, Invariance, PTL

\* The tree, the queue and the counter of the cache describe the same entries, with
\* one entry for a name and never more than the cache may hold.
THEOREM StructureAgrees ==
    NoSpecialFiles => (Spec => []CacheAgrees)
<1> SUFFICES ASSUME NoSpecialFiles PROVE Spec => []CacheAgrees
    OBVIOUS
<1>1. IInv => CacheAgrees
  <2> SUFFICES ASSUME IInv PROVE CacheAgrees
      OBVIOUS
  <2>1. CacheOK(c, HoldOf(req), OwnOf(req, c.file)) /\ c.rbtree \in SUBSET Ids
        /\ c.expire_queue \in Seq(Ids)
      BY DEF IInv, CacheOK, Cache
  <2>2. NoRepeat(c.expire_queue) /\ ToSet(c.expire_queue) = c.rbtree
      BY <2>1 DEF CacheOK, QueueOK
  <2>3. Len(c.expire_queue) = Cardinality(c.rbtree)
      BY <2>1, <2>2, CountOfQueue
  <2>4. \A i \in c.rbtree : c.file[i].live /\ ~c.file[i].close
      BY <2>1 DEF CacheOK, EntryOK
  <2> QED
      BY <2>1, <2>2, <2>3, <2>4 DEF CacheAgrees, CacheOK, NamesUnique
<1> QED
    BY <1>1, Invariance, PTL

\* While a request uses a handle, or a thread compares it with the name, the handle
\* is open and refers to the file it was opened for.
THEOREM UsersHandleIsOpen ==
    NoSpecialFiles => (Spec => []HandleOfUserIsOpen)
<1> SUFFICES ASSUME NoSpecialFiles PROVE Spec => []HandleOfUserIsOpen
    OBVIOUS
<1>1. IInv => HandleOfUserIsOpen
  <2> SUFFICES ASSUME IInv, NEW r \in Reqs,
                      req[r].pc = "using" \/ (req[r].pc = "stat" /\ req[r].file # None)
               PROVE  c.open[req[r].of.fd] = req[r].of.uniq
      BY DEF HandleOfUserIsOpen
  <2>1. RequestOK(req[r], c.file, disk)
      BY SMTT(60) DEF IInv
  <2>2. CASE req[r].file # None
    <3>1. Knows(req[r], c.file)
        BY <2>1, <2>2 DEF RequestOK
    <3> QED
        BY <2>2, <3>1, HeldIsOpen DEF Knows
  <2>3. CASE req[r].file = None
    <3>1. Opening(req[r], c.file)
        BY <2>1, <2>3 DEF RequestOK, Opening
    <3> QED
        BY <3>1 DEF IInv, OpenersOK
  <2> QED
      BY <2>2, <2>3
<1> QED
    BY <1>1, Invariance, PTL

\* As many images as elements.
LEMMA AsMany ==
    ASSUME NEW S, NEW T, NEW f, IsFiniteSet(S), \A x, y \in S : f[x] = f[y] => x = y,
           \A x \in S : f[x] \in T, \A t \in T : \E x \in S : f[x] = t
    PROVE  IsFiniteSet(T) /\ Cardinality(T) = Cardinality(S)
<1> DEFINE g == [x \in S |-> f[x]]
<1>1. g \in [S -> T] /\ \A x \in S : g[x] = f[x]
    OBVIOUS
<1> HIDE DEF g
<1>2. g \in Bijection(S, T)
    BY <1>1 DEF Bijection, Injection, Surjection, IsInjective
<1>3. ExistsBijection(S, T)
    BY <1>2 DEF ExistsBijection
<1> QED
    BY <1>3, FS_Bijection

\* Every open descriptor has exactly one owner, an entry or a request that opened it,
\* and every owner's descriptor is open: saving the result of a thread neither leaks a
\* handle nor closes one twice, whatever became of the entry meanwhile.
THEOREM DescriptorsOwned ==
    NoSpecialFiles => (Spec => []HandlesOwned)
<1> SUFFICES ASSUME NoSpecialFiles PROVE Spec => []HandlesOwned
    OBVIOUS
<1>1. IInv => HandlesOwned
  <2> SUFFICES ASSUME IInv PROVE HandlesOwned
      OBVIOUS
  <2> DEFINE Keepers == {i \in LiveFiles : c.file[i].fd # INVALID}
             kept == {c.file[i].fd : i \in Keepers}
             own == {req[r].of.fd : r \in Openers}
             F == [i \in Ids |-> c.file[i].fd]
             G == [r \in Reqs |-> req[r].of.fd]
  <2>1. /\ ~c.broken /\ HandlesOK(c, OwnOf(req, c.file)) /\ OpenersOK(req, c.file, c.open)
        /\ \A i \in Ids : EntryOK(c, i, HoldOf(req)[i])
        /\ \A i \in Ids : c.file[i].fd \in Fds \cup {INVALID}
      BY DEF IInv, CacheOK, Cache, File
  <2>2. Openers = {r \in Reqs : Opening(req[r], c.file)}
      BY DEF Openers, Opening
  <2>3. own = OwnOf(req, c.file)
      BY <2>2 DEF OwnOf
  <2>4. Keepers = {i \in Ids : c.file[i].fd # INVALID}
      BY <2>1 DEF LiveFiles, EntryOK, NoFile
  <2>5. /\ \A i \in Keepers : F[i] \in kept
        /\ \A fd \in kept : \E i \in Keepers : F[i] = fd
        /\ \A r \in Openers : G[r] \in own
        /\ \A fd \in own : \E r \in Openers : G[r] = fd
      BY <2>2, <2>4
  <2>6. Keepers \subseteq Ids /\ Openers \subseteq Reqs
      BY <2>2, <2>4
  <2>7. IsFiniteSet(Keepers) /\ IsFiniteSet(Openers)
    <3> HIDE DEF Keepers
    <3>1. IsFiniteSet(Keepers)
        BY <2>6, IdsFinite
    <3>2. IsFiniteSet(Openers)
        BY <2>6, FS_Subset, OpenFileAssumption
    <3> QED
        BY <3>1, <3>2
  <2>8. \A i, j \in Keepers : F[i] = F[j] => i = j
      BY <2>1, <2>4 DEF HandlesOK
  <2>9. \A r, s \in Openers : G[r] = G[s] => r = s
      BY <2>1, <2>2 DEF OpenersOK
  <2>10. kept \cap own = {}
      BY <2>1, <2>3, <2>4 DEF HandlesOK
  <2>11. {fd \in Fds : c.open[fd] # 0} = kept \cup own
    <3>1. ASSUME NEW fd \in Fds, c.open[fd] # 0 PROVE fd \in kept \cup own
      <4>1. fd # INVALID
          BY NoneFacts
      <4> QED
          BY <2>1, <2>3, <2>4, <3>1, <4>1 DEF HandlesOK
    <3>2. ASSUME NEW i \in Keepers PROVE c.file[i].fd \in Fds /\ c.open[c.file[i].fd] # 0
        BY <2>1, <2>4 DEF HandlesOK
    <3>3. \A fd \in own : fd \in Fds /\ c.open[fd] # 0
        BY <2>1, <2>3 DEF HandlesOK
    <3> HIDE DEF own, Keepers
    <3> QED
        BY <3>1, <3>2, <3>3
  <2> HIDE DEF Keepers, kept, own, F, G
  <2>12. IsFiniteSet(kept) /\ Cardinality(kept) = Cardinality(Keepers)
    <3>1. /\ IsFiniteSet(Keepers)
          /\ \A i \in Keepers : F[i] \in kept
          /\ \A fd \in kept : \E i \in Keepers : F[i] = fd
        BY <2>5, <2>7
    <3> QED
        BY <2>8, <3>1, AsMany
  <2>13. IsFiniteSet(own) /\ Cardinality(own) = Cardinality(Openers)
    <3>1. /\ IsFiniteSet(Openers)
          /\ \A r \in Openers : G[r] \in own
          /\ \A fd \in own : \E r \in Openers : G[r] = fd
        BY <2>5, <2>7
    <3> QED
        BY <2>9, <3>1, AsMany
  <2>14. Cardinality(kept \cup own) = Cardinality(Keepers) + Cardinality(Openers)
    <3>1. Cardinality(kept \cup own) = Cardinality(kept) + Cardinality(own) - Cardinality({})
        BY <2>10, <2>12, <2>13, FS_Union
    <3>2. Cardinality(kept) \in Nat /\ Cardinality(own) \in Nat
        BY <2>12, <2>13, FS_CardinalityType
    <3> QED
        BY <2>12, <2>13, <3>1, <3>2, FS_EmptySet
  <2> QED
      BY <2>1, <2>11, <2>14 DEF HandlesOwned, Keepers, kept, own
<1> QED
    BY <1>1, Invariance, PTL
=============================================================================
