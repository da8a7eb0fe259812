----------------------------- MODULE LossyCache ------------------------------
(***************************************************************************)
(* What the callers of ngx_buffer_cache.h rely on: a cache that may lose   *)
(* any key at any time, except one that a caller is using, and that never  *)
(* hands out bytes other than those stored under the key asked for.        *)
(***************************************************************************)
CONSTANTS
    Procs,      \* the worker processes
    Keys        \* cache keys; a key determines its contents

VARIABLES
    avail,      \* the keys whose bytes are in the cache
    held        \* per process: <<>>, or the key it asked for and the bytes it reads

vars == <<avail, held>>

HeldKeys == {held[p][1] : p \in {q \in Procs : held[q] # <<>>}}

Init ==
    /\ avail = {}
    /\ held = [p \in Procs |-> <<>>]

Publish(k) ==
    /\ avail' = avail \cup {k}
    /\ UNCHANGED held

Lose(ks) ==
    /\ ks \cap HeldKeys = {}
    /\ avail' = avail \ ks
    /\ UNCHANGED held

Fetch(p, k) ==
    /\ held[p] = <<>>
    /\ k \in avail
    /\ held' = [held EXCEPT ![p] = <<k, k>>]
    /\ UNCHANGED avail

Release(p) ==
    /\ held[p] # <<>>
    /\ held' = [held EXCEPT ![p] = <<>>]
    /\ UNCHANGED avail

Next ==
    \/ \E k \in Keys : Publish(k)
    \/ \E ks \in SUBSET Keys : Lose(ks)
    \/ \E p \in Procs : (\E k \in Keys : Fetch(p, k)) \/ Release(p)

Spec == Init /\ [][Next]_vars
=============================================================================
