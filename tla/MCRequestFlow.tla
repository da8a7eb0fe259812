--------------------------- MODULE MCRequestFlow ---------------------------
(***************************************************************************)
(* Configurations of RequestFlow for TLC.  Each set varies what a mode     *)
(* depends on and fixes the rest as in Plain.                              *)
(***************************************************************************)
EXTENDS RequestFlow

Plain ==
    [mode |-> "local", kind |-> "segment", head |-> FALSE, uris |-> 1, sequences |-> 0,
     single_key |-> FALSE, audio |-> FALSE, threads |-> TRUE, aio |-> TRUE, cache |-> FALSE,
     fallback |-> FALSE, upstream |-> FALSE, remote |-> FALSE, redirect |-> FALSE,
     apply |-> FALSE]

\* A clip whose metadata is in the cache is not combined with a fallback.
Local ==
    {[Plain EXCEPT !.kind = k, !.head = h, !.uris = IF k \in {"clip", "serve"} THEN 1 ELSE 2,
                   !.audio = a, !.cache = c, !.fallback = f, !.threads = t] :
        k \in {"manifest", "segment", "clip", "serve"}, h \in BOOLEAN, a \in BOOLEAN,
        c \in BOOLEAN, f \in BOOLEAN, t \in BOOLEAN}
        \ {[Plain EXCEPT !.kind = "clip", !.head = h, !.audio = a, !.cache = TRUE,
                         !.fallback = TRUE, !.threads = t] :
             h \in BOOLEAN, a \in BOOLEAN, t \in BOOLEAN}

Remote ==
    {[Plain EXCEPT !.mode = "remote", !.kind = k, !.single_key = s, !.cache = c,
                   !.sequences = IF k \in {"clip", "serve"} THEN n \div 2 ELSE n,
                   !.uris = IF k \in {"clip", "serve"} THEN 1 ELSE 2] :
        k \in {"manifest", "segment", "clip", "serve"}, n \in {0, 2}, s \in BOOLEAN,
        c \in BOOLEAN}

\* Redirects are not combined with progressive downloads.
Mapped ==
    {[Plain EXCEPT !.mode = "mapped", !.kind = k, !.uris = u, !.fallback = TRUE,
                   !.upstream = up, !.remote = up, !.redirect = r, !.apply = a, !.cache = c] :
        k \in {"manifest", "segment"}, u \in {1, 2}, up \in BOOLEAN, r \in BOOLEAN,
        a \in BOOLEAN, c \in BOOLEAN}
    \cup
    {[Plain EXCEPT !.mode = "mapped", !.kind = k, !.upstream = up, !.remote = up] :
        k \in {"clip", "serve"}, up \in BOOLEAN}

All == Local \cup Remote \cup Mapped

\* What All leaves out: a clip whose metadata is in the cache, and a fallback.
CachedClip == {[Plain EXCEPT !.kind = "clip", !.cache = TRUE, !.fallback = TRUE]}

\* And a progressive download where segments are redirected.
RedirectedClip ==
    {[Plain EXCEPT !.mode = "mapped", !.kind = "clip", !.redirect = TRUE]}

\* A source with its uri and one to be mapped; dynamic clips with notifications.
Sets == {[sources |-> 1, mapped |-> 1, dynamic |-> 0, notifications |-> 0],
         [sources |-> 1, mapped |-> 0, dynamic |-> 2, notifications |-> 1]}

=============================================================================
