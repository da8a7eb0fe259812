------------------------------ MODULE ReadCache -------------------------------
(***************************************************************************)
(* The read cache of vod/input/read_cache.c and the frames source on top   *)
(* of it, vod/input/frames_source_cache.c.                                 *)
(*                                                                         *)
(* A few buffers, one slot per media type modulo their number, stand       *)
(* between the tracks of a segment and the files they are read from.  A    *)
(* track asks for the byte at the current offset of its frame; if no       *)
(* buffer holds it, the cache decides which range of the file to read into *)
(* which slot.  The functions of the source are operators on the record of *)
(* the cache.                                                              *)
(***************************************************************************)
EXTENDS Integers

CONSTANTS
    BufferSize,     \* cache_buffer_size
    Alignments      \* directio_alignment of the files; 1 for remote sources

\* A configuration whose buffers are not a multiple of the alignment of direct
\* reads is not modelled.
ASSUME ReadCacheAssumption ==
    /\ BufferSize \in Nat \ {0}
    /\ Alignments \subseteq Nat \ {0}
    /\ \A a \in Alignments : BufferSize % a = 0

MIN_BUFFER_COUNT == 2
Slots == 0 .. MIN_BUFFER_COUNT - 1
NULL == 0               \* no source; sources are numbered from 1
None == -1              \* ULLONG_MAX: no hint

\* cache_buffer_t: the range of the source it holds, and the memory block.
CacheBuffer == [source: Nat, start: Nat, end: Nat, size: Nat, block: Nat]

\* read_cache_state_t; reads is the number of blocks allocated so far.
Cache == [buffers: [Slots -> CacheBuffer], target: Slots, reads: Nat]

\* read_cache_request_t
Request == [source: Nat, slot: Nat, cur: Nat, end: Nat,
            hint: [min: Nat \cup {None}, slot: Nat]]

read_cache_init ==
    [buffers |-> [i \in Slots |->
                    [source |-> NULL, start |-> 0, end |-> 0, size |-> 0, block |-> 0]],
     target |-> 0, reads |-> 0]

\* offset & ~(alignment - 1)
AlignDown(offset, alignment) == offset - (offset % alignment)

-----------------------------------------------------------------------------
(* read_cache_get_from_cache *)

\* Mutant: the end of a buffer taken to be its last byte.
Hits_pastEnd(cache, req) ==
    {i \in Slots : /\ cache.buffers[i].source = req.source
                   /\ req.cur >= cache.buffers[i].start
                   /\ req.cur <= cache.buffers[i].end}

\* Mutant: buffers of other files taken for the file's own.
Hits_anySource(cache, req) ==
    {i \in Slots : /\ req.cur >= cache.buffers[i].start
                   /\ req.cur < cache.buffers[i].end}

\* The buffers that have the requested byte.
Hits(cache, req) ==
    {i \in Slots : /\ cache.buffers[i].source = req.source
                   /\ req.cur >= cache.buffers[i].start
                   /\ req.cur < cache.buffers[i].end}

\* Mutant: reading from the hint on however far the frame is.
ReadFromHint_anyDistance(req, alignment) ==
    req.hint.min # None /\ req.hint.min < req.cur

\* "start reading from the min offset, if that would contain the whole frame"
ReadFromHint(req, alignment) ==
    /\ req.hint.min # None
    /\ req.hint.min < req.cur
    /\ req.hint.min + (BufferSize \div 4) > req.cur
    /\ req.end < AlignDown(req.hint.min, alignment) + BufferSize

\* Mutant: what the other buffer holds is read again.
SkipCached_never(cache, target, source, alignment, offset) ==
    [offset |-> offset, size |-> BufferSize]

\* "don't read anything that is already in the cache": with two buffers there is
\* one besides the target.
SkipCached(cache, target, source, alignment, offset) ==
    LET other == cache.buffers[1 - target]
    IN CASE other.source = source /\ other.start > offset ->
              [offset |-> offset,
               size |-> IF other.start - offset < BufferSize
                        THEN other.start - offset ELSE BufferSize]
         [] other.source = source /\ other.start <= offset /\ other.end > offset ->
              [offset |-> AlignDown(other.end, alignment), size |-> BufferSize]
         [] OTHER -> [offset |-> offset, size |-> BufferSize]

\* Mutant: everything up to the last offset is read at once.
UpToLastOffset_atOnce(range, file) ==
    LET last == AlignDown(file.last_offset + file.alignment - 1, file.alignment)
    IN IF last > range.offset THEN [range EXCEPT !.size = last - range.offset] ELSE range

\* "don't read past the max required offset"
UpToLastOffset(range, file) ==
    LET last == AlignDown(file.last_offset + file.alignment - 1, file.alignment)
    IN IF range.offset + range.size > file.last_offset /\ last > range.offset
       THEN [range EXCEPT !.size = last - range.offset]
       ELSE range

\* A miss: the slot that is read into, and the range of the file.
read_cache_miss(cache, req, file) ==
    LET hinted == ReadFromHint(req, file.alignment)
        target == (IF hinted THEN req.hint.slot ELSE req.slot) % MIN_BUFFER_COUNT
        from == AlignDown(IF hinted THEN req.hint.min ELSE req.cur, file.alignment)
        range == UpToLastOffset(
                    SkipCached(cache, target, req.source, file.alignment, from), file)
    IN [cache EXCEPT !.buffers[target].source = req.source,
                     !.buffers[target].start = range.offset,
                     !.buffers[target].size = range.size,
                     !.target = target]

-----------------------------------------------------------------------------
(* The read *)

\* The bytes a reader returns: those of the range that the file has.
BytesRead(cache, file) ==
    LET b == cache.buffers[cache.target]
        room == file.length - b.start
    IN IF room <= 0 THEN 0 ELSE IF room < b.size THEN room ELSE b.size

\* read_cache_read_completed with n bytes.  ngx_http_vod_alloc_read_buffer always
\* allocates: a buffer that is offered for reuse has room for cache_buffer_size
\* bytes, and not for the padding.
read_cache_read_completed(cache, n) ==
    LET b == cache.buffers[cache.target]
    IN [cache EXCEPT !.buffers[cache.target].size = n,
                     !.buffers[cache.target].end = b.start + n,
                     !.buffers[cache.target].block = cache.reads + 1,
                     !.reads = @ + 1]

-----------------------------------------------------------------------------
(* frames_source_cache *)

\* frames_source_cache_start_frame
StartFrame(source, slot, frame, hint) ==
    [source |-> source, slot |-> slot, cur |-> frame.offset,
     end |-> frame.offset + frame.size, hint |-> hint]

\* frames_source_cache_read when the byte is in the cache: the first buffer that
\* has it, the position in its block, the number of bytes, and whether the frame
\* ends there.
frames_source_cache_read(cache, req) ==
    LET slot == CHOOSE i \in Hits(cache, req) : \A j \in Hits(cache, req) : i <= j
        b == cache.buffers[slot]
        done == b.end >= req.end
    IN [block |-> b.block, pos |-> req.cur - b.start, source |-> b.source, from |-> req.cur,
        size |-> (IF done THEN req.end ELSE b.end) - req.cur, done |-> done]
=============================================================================
