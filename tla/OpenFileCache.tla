---------------------------- MODULE OpenFileCache ----------------------------
(***************************************************************************)
(* The asynchronous open file cache of ngx_async_open_file_cache.c and the *)
(* way ngx_file_reader.c uses the handles it returns.                      *)
(*                                                                         *)
(* One worker process serves many requests.  Opening a file that is not in *)
(* the cache, or whose entry has to be retested, is posted to a thread     *)
(* pool; when the thread is done the event loop saves the result, in a     *)
(* cache that other requests changed meanwhile.  Handles are shared by     *)
(* requests, counted by entries, and closed by the last user of an entry   *)
(* that left the cache.                                                    *)
(*                                                                         *)
(* The cache is one record, c, and the functions of the source are         *)
(* operators from caches to caches.  Times are abstracted: an entry is     *)
(* fresh until it ages, and the files that are old enough to be expired    *)
(* are any number of those at the end of the queue.  Vnode events (kqueue) *)
(* and disable_symlinks are off.                                           *)
(***************************************************************************)
EXTENDS Integers, Sequences, FiniteSets, SequencesExt

CONSTANTS
    Reqs,           \* concurrent opens
    Names,          \* file names
    NIds,           \* bound: entries allocated at one time
    NFds,           \* descriptors of the process
    None,           \* no entry
    MaxFiles,            \* cache->max
    MinUses,        \* of->min_uses
    Errors,         \* of->errors: errors are cached
    Uncached,       \* some locations open files without the cache
    Kinds,          \* what a name may refer to: "file", "dir", "special"
    MaxChanges      \* bound: files replaced

ASSUME OpenFileAssumption ==
    /\ {NIds, NFds, MinUses, MaxChanges} \subseteq Nat
    /\ MaxFiles \in Nat \ {0}
    /\ Errors \in BOOLEAN /\ Uncached \in BOOLEAN
    /\ "file" \in Kinds /\ Kinds \subseteq {"file", "dir", "special"}
    /\ None \notin (1 .. NIds) \cup Names
    /\ IsFiniteSet(Reqs) /\ IsFiniteSet(Names) /\ Names # {}

VARIABLES
    c,              \* the cache and the descriptors of the process
    req,            \* the opens in progress and the handles in use
    disk            \* what each name refers to

vars == <<c, req, disk>>

-----------------------------------------------------------------------------
(* Types *)

Ids == 1 .. NIds
Fds == 1 .. NFds
INVALID == 0                \* NGX_INVALID_FILE
Uniqs == 0 .. Cardinality(Names) + MaxChanges

\* ngx_cached_open_file_t; fresh stands for now - created < valid.
File == [live: BOOLEAN, name: Names \cup {None}, fd: Fds \cup {INVALID},
         uniq: Uniqs, err: BOOLEAN, is_dir: BOOLEAN, special: BOOLEAN,
         uses: 0 .. MinUses, count: Nat, close: BOOLEAN, fresh: BOOLEAN]

NoFile == [live |-> FALSE, name |-> None, fd |-> INVALID, uniq |-> 0,
           err |-> FALSE, is_dir |-> FALSE, special |-> FALSE,
           uses |-> 0, count |-> 0, close |-> FALSE, fresh |-> FALSE]

\* ngx_open_file_info_t, with the result of the thread in ok.
OpenFileInfo == [fd: Fds \cup {INVALID}, uniq: Uniqs, err: BOOLEAN,
                 is_dir: BOOLEAN, special: BOOLEAN, test_dir: BOOLEAN,
                 ok: BOOLEAN]

NoInfo == [fd |-> INVALID, uniq |-> 0, err |-> FALSE, is_dir |-> FALSE,
           special |-> FALSE, test_dir |-> FALSE, ok |-> FALSE]

\* file is ctx->file until the open is complete and the file of the pool
\* cleanup afterwards.
Request == [pc: {"idle", "stat", "open", "done", "using", "refused"},
            name: Names \cup {None}, cached: BOOLEAN,
            of: OpenFileInfo, file: Ids \cup {None}]

NoRequest == [pc |-> "idle", name |-> None, cached |-> FALSE, of |-> NoInfo,
              file |-> None]

\* broken: a handle that is not open was closed, or an entry that is not linked
\* was unlinked.
Cache == [file: [Ids -> File], rbtree: SUBSET Ids, expire_queue: Seq(Ids),
          current: Nat, open: [Fds -> Uniqs], broken: BOOLEAN]

TypeOK ==
    /\ c \in Cache
    /\ req \in [Reqs -> Request]
    /\ disk \in [Names -> [uniq: Uniqs, kind: Kinds]]

-----------------------------------------------------------------------------
(* The helpers of the source *)

\* The uses of an entry are told apart up to MinUses.
Used(n) == IF n < MinUses THEN n + 1 ELSE n

ngx_close_file(d, fd) ==
    IF fd # INVALID /\ d.open[fd] # 0
    THEN [d EXCEPT !.open[fd] = 0]
    ELSE [d EXCEPT !.broken = TRUE]

Free(d, i) == [d EXCEPT !.file[i] = NoFile]

queue_remove(d, i) ==
    LET q == d.expire_queue
    IN IF i \in ToSet(q)
       THEN [d EXCEPT !.expire_queue = RemoveAt(q, CHOOSE k \in DOMAIN q : q[k] = i)]
       ELSE [d EXCEPT !.broken = TRUE]

queue_insert_head(d, i) == [d EXCEPT !.expire_queue = <<i>> \o @]

\* ngx_rbtree_delete and cache->current--
rbtree_delete(d, i) ==
    [d EXCEPT !.rbtree = @ \ {i}, !.current = @ - 1,
              !.broken = @ \/ i \notin d.rbtree]

ngx_open_file_lookup(d, n) == {i \in d.rbtree : d.file[i].name = n}

\* "file was not used often enough to keep open"
NotKept(f) == f.fd = INVALID /\ ~f.err /\ ~f.is_dir

\* Mutant: an entry that left the cache is freed although requests use it.
ngx_close_cached_file_noCount(d, i, min_uses) ==
    LET f == d.file[i]
        moved == IF f.close THEN d ELSE queue_insert_head(queue_remove(d, i), i)
        closed == IF f.fd = INVALID THEN moved
                  ELSE [ngx_close_file(moved, f.fd) EXCEPT !.file[i].fd = INVALID]
    IN IF ~f.close /\ (f.uses >= min_uses \/ f.count # 0) THEN moved
       ELSE IF f.close THEN Free(closed, i)
       ELSE closed

ngx_close_cached_file(d, i, min_uses) ==
    LET f == d.file[i]
        moved == IF f.close THEN d ELSE queue_insert_head(queue_remove(d, i), i)
        closed == IF f.fd = INVALID THEN moved
                  ELSE [ngx_close_file(moved, f.fd) EXCEPT !.file[i].fd = INVALID]
    IN IF f.count # 0 \/ (~f.close /\ f.uses >= min_uses) THEN moved
       ELSE IF f.close THEN Free(closed, i)
       ELSE closed

\* One iteration of ngx_expire_old_cached_files.
expire_last(d) ==
    LET i == Last(d.expire_queue)
        out == rbtree_delete(queue_remove(d, i), i)
    IN IF d.file[i].err \/ d.file[i].is_dir
       THEN Free(out, i)
       ELSE ngx_close_cached_file([out EXCEPT !.file[i].close = TRUE], i, 0)

\* The least recently used entry is dropped, if there is one.
expire_one(d) == IF d.expire_queue = <<>> THEN d ELSE expire_last(d)

\* ngx_expire_old_cached_files, when it finds k entries to drop, three at most.
ngx_expire_old_cached_files(d, k) ==
    LET one == IF k < 1 THEN d ELSE expire_one(d)
        two == IF k < 2 THEN one ELSE expire_one(one)
    IN IF k < 3 THEN two ELSE expire_one(two)

-----------------------------------------------------------------------------
(* ngx_save_open_file_to_cache.  Its labels are operators that return the  *)
(* cache, the file info given to the caller and the file that the caller's *)
(* pool cleanup holds.  choice fixes what the environment decides: how     *)
(* many entries are old enough to be dropped, whether memory is allocated  *)
(* and the initial value of a field that is not initialized.               *)

SaveChoices == [drop: 1 .. 3, alloc: BOOLEAN, junk: BOOLEAN]

\* The open failed in a way that is not cached.
Failing(of) == ~of.ok /\ (~of.err \/ ~Errors)

\* Mutant: the handle that the request opened itself is forgotten.
CloseOwn_never(d, of) == d

CloseOwn(d, of) == IF of.fd # INVALID THEN ngx_close_file(d, of.fd) ELSE d

\* failed:
save_failed(d, i, of) ==
    LET out == IF i = None THEN d ELSE rbtree_delete(d, i)
        dropped ==
            IF i = None THEN out
            ELSE IF d.file[i].count # 0 THEN [out EXCEPT !.file[i].close = TRUE]
            ELSE IF d.file[i].fd # INVALID
                 THEN Free(ngx_close_file(out, d.file[i].fd), i)
            ELSE Free(out, i)
    IN [c |-> CloseOwn(dropped, of),
        of |-> [of EXCEPT !.ok = FALSE], file |-> None]

\* Mutant: a file that left the cache while it was retested is queued again.
save_found_requeue(d, i, of) ==
    [c |-> queue_insert_head(d, i),
     of |-> [of EXCEPT !.ok = ~of.err],
     file |-> IF of.err \/ of.is_dir THEN None ELSE i]

\* found:
save_found(d, i, of) ==
    [c |-> IF d.file[i].close THEN d ELSE queue_insert_head(d, i),
     of |-> [of EXCEPT !.ok = ~of.err],
     file |-> IF of.err \/ of.is_dir THEN None ELSE i]

\* Mutant: a directory is counted like an open file.
NewUsers_always(of) == 1

NewUsers(of) == IF of.is_dir THEN 0 ELSE 1

\* update:
save_update(d, i, of) ==
    LET f == d.file[i]
        g == [f EXCEPT !.fd = of.fd, !.err = of.err, !.fresh = TRUE]
        h == IF of.err THEN g
             ELSE [g EXCEPT !.uniq = of.uniq, !.is_dir = of.is_dir,
                            !.special = of.special,
                            !.count = @ + NewUsers(of)]
    IN save_found([d EXCEPT !.file[i] = h], i, of)

\* Mutant: entries are dropped only once there are too many.
AtLimit_exceeded(d) == d.current > MaxFiles

AtLimit(d) == d.current >= MaxFiles

\* create:
save_create(d, n, of, choice) ==
    LET room == IF AtLimit(d) THEN ngx_expire_old_cached_files(d, choice.drop)
                ELSE d
        free == {i \in Ids : ~room.file[i].live}
        i == CHOOSE j \in free : \A k \in free : j <= k
    IN IF choice.alloc /\ free # {}
       THEN save_update([room EXCEPT
                !.file[i] = [NoFile EXCEPT !.live = TRUE, !.name = n, !.uses = Used(0),
                                           !.is_dir = choice.junk],
                !.rbtree = @ \cup {i}, !.current = @ + 1], i, of)
       ELSE save_failed(room, None, of)

\* "initially had a cache miss, but now that the open completed, there's a
\* cache hit": use the handle of the cache.
save_hit(d, i, of) ==
    LET f == d.file[i]
        used == [CloseOwn(d, of) EXCEPT !.file[i].count =
                                IF f.err \/ f.is_dir THEN @ ELSE @ + 1]
    IN save_found(used, i,
            IF f.err THEN [of EXCEPT !.fd = INVALID, !.err = TRUE]
            ELSE [of EXCEPT !.fd = f.fd, !.uniq = f.uniq, !.err = FALSE,
                            !.is_dir = f.is_dir, !.special = f.special])

\* Mutant: a changed file replaces the handle of an entry that is in use.
save_changed_inPlace(d, i, n, of, choice) ==
    save_update(ngx_close_file(d, d.file[i].fd), i, of)

\* The file changed: reuse the entry if nobody uses its handle, else leave it
\* to its users and create a new one.
save_changed(d, i, n, of, choice) ==
    IF d.file[i].count = 0
    THEN save_update(ngx_close_file(d, d.file[i].fd), i, of)
    ELSE save_create([rbtree_delete(d, i) EXCEPT !.file[i].close = TRUE], n, of, choice)

\* The entry that the cache has for the name.
save_entry(d, i, n, of, choice) ==
    LET f == d.file[i]
        e == [queue_remove(d, i) EXCEPT !.file[i].uses = Used(@)]
    IN CASE NotKept(f) ->
              IF Failing(of) THEN save_failed(e, i, of) ELSE save_update(e, i, of)
         [] ~NotKept(f) /\ f.fresh /\ (of.uniq = 0 \/ of.uniq = f.uniq) ->
              save_hit(e, i, of)
         [] OTHER ->
              IF Failing(of) THEN save_failed(e, i, of)
              ELSE IF f.err \/ f.is_dir THEN save_update(e, i, of)
              ELSE save_changed(e, i, n, of, choice)

save_lookup(d, n, of, choice) ==
    LET found == ngx_open_file_lookup(d, n)
    IN IF found # {} THEN save_entry(d, CHOOSE i \in found : TRUE, n, of, choice)
       ELSE IF Failing(of) THEN save_failed(d, None, of)
       ELSE save_create(d, n, of, choice)

\* Mutant: a failed retest drops an entry that was dropped before.
save_retested_dropTwice(d, i, n, of, choice) ==
    LET f == d.file[i]
        e == [d EXCEPT !.file[i].count = @ - 1]
        same == ~of.is_dir /\ ~of.err /\ of.uniq = f.uniq
    IN CASE Failing(of) -> save_failed(queue_remove(e, i), i, of)
         [] ~Failing(of) /\ same ->
              save_update([(IF f.close THEN e ELSE queue_remove(e, i))
                              EXCEPT !.file[i].uses = Used(@)], i, of)
         [] ~Failing(of) /\ ~same /\ f.close ->
              save_lookup(ngx_close_cached_file(e, i, 0), n, of, choice)
         [] OTHER -> save_entry(e, i, n, of, choice)

\* The file that was retested.  It may have left the cache meanwhile.
save_retested(d, i, n, of, choice) ==
    LET f == d.file[i]
        e == [d EXCEPT !.file[i].count = @ - 1]
        same == ~of.is_dir /\ ~of.err /\ of.uniq = f.uniq
    IN CASE Failing(of) /\ f.close ->
              save_failed(IF f.count = 1 THEN Free(ngx_close_file(e, f.fd), i) ELSE e,
                          None, of)
         [] Failing(of) /\ ~f.close -> save_failed(queue_remove(e, i), i, of)
         [] ~Failing(of) /\ same ->
              save_update([(IF f.close THEN e ELSE queue_remove(e, i))
                              EXCEPT !.file[i].uses = Used(@)], i, of)
         [] ~Failing(of) /\ ~same /\ f.close ->
              save_lookup(ngx_close_cached_file(e, i, 0), n, of, choice)
         [] OTHER -> save_entry(e, i, n, of, choice)

ngx_save_open_file_to_cache(d, i, n, of, choice) ==
    IF i = None THEN save_lookup(d, n, of, choice)
    ELSE save_retested(d, i, n, of, choice)

-----------------------------------------------------------------------------
(* The life of an open *)

\* ngx_file_reader_update_state_file_info.  The open failed, or the name is not
\* a regular file and the handle, if there is one, is closed, or the request
\* uses the handle.  The pool cleanup is registered if there is a handle; held
\* is its file, None without a cache.
use_file(r, d, cached, of, held) ==
    LET handle == of.ok /\ ~of.is_dir
    IN /\ c' = IF handle /\ of.special THEN ngx_close_file(d, of.fd) ELSE d
       /\ req' = [req EXCEPT ![r] =
            IF ~handle THEN NoRequest
            ELSE [NoRequest EXCEPT !.pc = IF of.special THEN "refused" ELSE "using",
                                   !.cached = cached, !.file = held,
                                   !.of = [NoInfo EXCEPT !.fd = of.fd, !.uniq = of.uniq]]]

\* ngx_async_open_cached_file from the allocation of the task: the task is
\* posted, or it is not and the count taken for a retest is given back.
post_task(r, n, d, cached, of, i) ==
    \/ /\ c' = d
       /\ req' = [req EXCEPT ![r] =
            [pc |-> IF of.fd # INVALID \/ of.test_dir THEN "stat" ELSE "open",
             name |-> n, cached |-> cached, of |-> of, file |-> i]]
    \/ /\ c' = IF i = None THEN d
               ELSE ngx_close_cached_file([d EXCEPT !.file[i].count = @ - 1], i, MinUses)
       /\ UNCHANGED req

\* ngx_get_open_file_from_cache: no entry, or one that keeps no handle.
open_miss(r, n) ==
    /\ req[r].pc = "idle"
    /\ \A i \in ngx_open_file_lookup(c, n) : NotKept(c.file[i])
    /\ post_task(r, n, c, TRUE, NoInfo, None)
    /\ UNCHANGED disk

\* Mutant: the entry is retested without taking a count.
TakeForRetest_never(f, i) == None

\* Only a file entry is kept alive by its retest.
TakeForRetest(f, i) == IF f.is_dir \/ f.err THEN None ELSE i

\* The entry is not fresh any more.
open_retest(r, n) ==
    /\ req[r].pc = "idle"
    /\ \E i \in ngx_open_file_lookup(c, n) :
        LET f == c.file[i]
            held == TakeForRetest(f, i)
        IN /\ ~NotKept(f) /\ ~f.fresh
           /\ post_task(r, n,
                IF held = None THEN c ELSE [c EXCEPT !.file[i].count = @ + 1],
                TRUE,
                [NoInfo EXCEPT !.fd = f.fd, !.uniq = f.uniq, !.test_dir = f.is_dir],
                held)
    /\ UNCHANGED disk

open_hit(r, n) ==
    /\ req[r].pc = "idle"
    /\ \E i \in ngx_open_file_lookup(c, n) :
        LET f == c.file[i]
            d == [queue_insert_head(queue_remove(c, i), i) EXCEPT
                    !.file[i].uses = Used(@),
                    !.file[i].count = IF f.err \/ f.is_dir THEN @ ELSE @ + 1]
            of == [NoInfo EXCEPT !.fd = f.fd, !.uniq = f.uniq, !.err = f.err,
                                 !.is_dir = f.is_dir, !.special = f.special,
                                 !.ok = ~f.err]
        IN /\ ~NotKept(f) /\ f.fresh
           /\ use_file(r, d, TRUE, of, i)
    /\ UNCHANGED disk

\* OPEN_FILE_NO_CACHE, or no cache is configured.
open_uncached(r, n) ==
    /\ Uncached
    /\ req[r].pc = "idle"
    /\ post_task(r, n, c, FALSE, NoInfo, None)
    /\ UNCHANGED disk

\* The thread: ngx_open_and_stat_file.  A call may fail whatever is on disk.
Finish(r, of) == req' = [req EXCEPT ![r].of = of, ![r].pc = "done"]

stat_failed(r) ==
    /\ req[r].pc \in {"stat", "open"}
    /\ Finish(r, [req[r].of EXCEPT !.fd = INVALID, !.err = TRUE])
    /\ UNCHANGED <<c, disk>>

\* The handle of the entry is still that of the name, the directory is still a
\* directory, or the name has to be opened.
thread_stat(r) ==
    LET of == req[r].of
        fi == disk[req[r].name]
    IN
    /\ req[r].pc = "stat"
    /\ IF (of.fd # INVALID /\ of.uniq = fi.uniq) \/ (of.fd = INVALID /\ fi.kind = "dir")
       THEN Finish(r, [of EXCEPT !.uniq = fi.uniq, !.is_dir = fi.kind = "dir",
                                 !.special = fi.kind = "special", !.ok = TRUE])
       ELSE req' = [req EXCEPT ![r].pc = "open"]
    /\ UNCHANGED <<c, disk>>

FreeFds == {fd \in Fds : c.open[fd] = 0}

\* open() and fstat(); the handle of a directory is closed again.
thread_open(r) ==
    LET of == req[r].of
        fi == disk[req[r].name]
        fd == CHOOSE x \in FreeFds : \A y \in FreeFds : x <= y
    IN
    /\ req[r].pc = "open"
    /\ FreeFds # {}
    /\ \/ /\ fi.kind # "dir"
          /\ Finish(r, [of EXCEPT !.fd = fd, !.uniq = fi.uniq,
                                  !.special = fi.kind = "special", !.ok = TRUE])
          /\ c' = [c EXCEPT !.open[fd] = fi.uniq]
       \/ /\ fi.kind = "dir"
          /\ Finish(r, [of EXCEPT !.fd = INVALID, !.uniq = fi.uniq,
                                  !.is_dir = TRUE, !.ok = TRUE])
          /\ UNCHANGED c
       \/ /\ Finish(r, [of EXCEPT !.fd = INVALID])      \* fstat() failed
          /\ UNCHANGED c
    /\ UNCHANGED disk

\* ngx_async_open_thread_event_handler
open_done(r) ==
    /\ req[r].pc = "done"
    /\ \/ /\ req[r].cached
          /\ \E saved \in {ngx_save_open_file_to_cache(c, req[r].file, req[r].name,
                                req[r].of, choice) : choice \in SaveChoices} :
               use_file(r, saved.c, TRUE, saved.of, saved.file)
       \/ /\ ~req[r].cached
          /\ use_file(r, c, FALSE, req[r].of, None)
    /\ UNCHANGED disk

\* The pool of the request is destroyed: ngx_open_file_cleanup, or
\* ngx_pool_cleanup_file without a cache.
cleanup(r) ==
    /\ req[r].pc \in {"using", "refused"}
    /\ \/ /\ req[r].cached
          /\ LET i == req[r].file
                 d == ngx_close_cached_file([c EXCEPT !.file[i].count = @ - 1], i, MinUses)
             IN \E drop \in 0 .. 2 : c' = ngx_expire_old_cached_files(d, drop)
       \/ /\ ~req[r].cached
          /\ c' = ngx_close_file(c, req[r].of.fd)
    /\ req' = [req EXCEPT ![r] = NoRequest]
    /\ UNCHANGED disk

-----------------------------------------------------------------------------
(* The file system and the clock *)

LastUniq == CHOOSE u \in {disk[n].uniq : n \in Names} :
                \A n \in Names : disk[n].uniq <= u

\* Another file takes the name.  A handle keeps its inode alive, so the number
\* of a file in the cache is not given to another file.
replace_file(n, kind) ==
    /\ LastUniq < Cardinality(Names) + MaxChanges
    /\ disk' = [disk EXCEPT ![n] = [uniq |-> LastUniq + 1, kind |-> kind]]
    /\ UNCHANGED <<c, req>>

\* of->valid seconds passed since the entry was created.
age(i) ==
    /\ i \in c.rbtree
    /\ c.file[i].fresh
    /\ c' = [c EXCEPT !.file[i].fresh = FALSE]
    /\ UNCHANGED <<req, disk>>

-----------------------------------------------------------------------------
(* Specification *)

Init ==
    /\ c = [file |-> [i \in Ids |-> NoFile], rbtree |-> {}, expire_queue |-> <<>>,
            current |-> 0, open |-> [fd \in Fds |-> 0], broken |-> FALSE]
    /\ req = [r \in Reqs |-> NoRequest]
    /\ disk \in {[n \in Names |-> [uniq |-> number[n], kind |-> "file"]] :
                    number \in {f \in [Names -> 1 .. Cardinality(Names)] :
                                    \A m, n \in Names : f[m] = f[n] => m = n}}

Next ==
    \/ \E r \in Reqs :
        \/ \E n \in Names : open_miss(r, n) \/ open_retest(r, n) \/ open_hit(r, n)
                            \/ open_uncached(r, n)
        \/ stat_failed(r) \/ thread_stat(r) \/ thread_open(r)
        \/ open_done(r) \/ cleanup(r)
    \/ \E n \in Names, kind \in Kinds : replace_file(n, kind)
    \/ \E i \in Ids : age(i)

Spec == Init /\ [][Next]_vars

-----------------------------------------------------------------------------
(* Properties *)

LiveFiles == {i \in Ids : c.file[i].live}

\* The requests that hold a count on entry i.
Holders(i) == {r \in Reqs : req[r].cached /\ req[r].file = i}

\* The requests with a handle of their own: one that they opened and that is
\* not saved to the cache.
Openers == {r \in Reqs :
    /\ req[r].of.fd # INVALID
    /\ IF req[r].file = None THEN TRUE
       ELSE req[r].pc = "done" /\ req[r].of.uniq # c.file[req[r].file].uniq}

\* Every open descriptor has exactly one owner, an entry of the cache or an open
\* that is not saved yet, and every owner's descriptor is open: save never leaks
\* a handle and never closes one twice, whatever happened to the entry since the
\* task was posted.
HandlesOwned ==
    LET Keepers == {i \in LiveFiles : c.file[i].fd # INVALID}
        kept == {c.file[i].fd : i \in Keepers}
        own == {req[r].of.fd : r \in Openers}
    IN /\ ~c.broken
       /\ {fd \in Fds : c.open[fd] # 0} = kept \cup own
       /\ Cardinality(kept \cup own) = Cardinality(Keepers) + Cardinality(Openers)

\* "increment the count to prevent the handle from getting closed by some other
\* request": while a request uses a handle, or a thread compares it with the name,
\* the handle stays open and refers to the file it was opened for.
HandleOfUserIsOpen ==
    \A r \in Reqs :
        req[r].pc = "using" \/ (req[r].pc = "stat" /\ req[r].file # None) =>
            c.open[req[r].of.fd] = req[r].of.uniq

\* An entry is counted once for each request that holds it, is freed with its
\* last holder once it left the cache, and an entry without a file has none.
CountsAgree ==
    \A i \in Ids :
        /\ c.file[i].count = Cardinality(Holders(i))
        /\ Holders(i) # {} => c.file[i].live /\ ~c.file[i].is_dir /\ ~c.file[i].err
        /\ c.file[i].live /\ i \notin c.rbtree => c.file[i].close /\ Holders(i) # {}

\* The tree, the queue and the counter describe the same entries, one per name,
\* never more than the cache may hold.
CacheAgrees ==
    /\ c.rbtree = ToSet(c.expire_queue)
    /\ Len(c.expire_queue) = Cardinality(c.rbtree)
    /\ c.current = Cardinality(c.rbtree)
    /\ c.current <= MaxFiles
    /\ \A i \in c.rbtree : c.file[i].live /\ ~c.file[i].close
    /\ \A i, j \in c.rbtree : c.file[i].name = c.file[j].name => i = j
=============================================================================
