------------------------------- MODULE Mp4Muxer -------------------------------
(***************************************************************************)
(* vod/mp4/mp4_muxer.c over the read cache, driven by                      *)
(* ngx_http_vod_process_media_frames: a fragmented mp4 segment of several  *)
(* streams.                                                                *)
(*                                                                         *)
(* The muxer goes over the frames twice.  mp4_calculate_output_offsets     *)
(* chooses the order of the frames and records where each one will be; the *)
(* header is built from that and sent.  mp4_muxer_process_frames chooses   *)
(* the order again, reads the frames and writes their bytes, and is left   *)
(* and entered again whenever a byte has to be read.  A player finds a     *)
(* frame where the header says it is, so the two passes have to agree.     *)
(*                                                                         *)
(* A byte of the output is the source and the offset it comes from, with   *)
(* the stream whose writer it went through.                                *)
(***************************************************************************)
EXTENDS ReadCache, Sequences, SequencesExt

CONSTANTS
    Jobs,           \* sets of inputs, each with the conditions they are muxed under
    Timescale       \* of the request; all tracks have been rescaled to it

-----------------------------------------------------------------------------
(* The input *)

Frame == [offset: Nat, size: Nat \ {0}, duration: Nat]

\* frame_list_part_t; only the first part of a track may be empty
Part == [source: Nat \ {NULL}, frames: Seq(Frame)]

\* media_track_t of one clip; start is the time of its first frame
Track == [start: Nat, parts: Seq(Part)]

\* clips[c][s] is the track of stream s in clip c, and lengths are those of the files
\* when they are read.
Input == [media_types: Seq(0 .. 1), clips: Seq(Seq(Track)), lengths: Seq(Nat)]

\* limit is the end of the requested range, or 0.
Condition == [per_stream_writer: BOOLEAN, reuse_buffers: BOOLEAN, aio: BOOLEAN, limit: Nat]

\* Every clip has a track for every stream, and a track has a part.
IsMediaSet(i) ==
    /\ i.clips # <<>>
    /\ \A c \in DOMAIN i.clips :
         /\ DOMAIN i.clips[c] = DOMAIN i.media_types
         /\ \A s \in DOMAIN i.clips[c] :
              /\ i.clips[c][s].parts # <<>>
              /\ \A p \in DOMAIN i.clips[c][s].parts :
                   /\ i.clips[c][s].parts[p].source \in DOMAIN i.lengths
                   /\ p > 1 => i.clips[c][s].parts[p].frames # <<>>

ASSUME JobsAssumption ==
    /\ Timescale \in Nat
    /\ \A j \in Jobs : /\ j.inputs \subseteq Input
                       /\ j.conditions \subseteq Condition
                       /\ \A i \in j.inputs : IsMediaSet(i)

HeaderSize == 1     \* of what is sent before the frames

VARIABLES
    job,        \* the input, the alignment of its files and the conditions
    frames,     \* FramesOf the streams of the job
    mux,        \* mp4_muxer_state_t
    layout,     \* the output offsets and truns of the first pass
    cache,      \* read_cache_state_t
    req,        \* the frame that is read
    wbuf,       \* write_buffer of mp4_muxer_process_frames
    processed,  \* processed_data
    out,        \* the bytes of the mdat
    pc,         \* "init", "process", "reading" or "done"
    status      \* how it ended: "", "OK", "BAD_DATA" or "UNEXPECTED"

vars == <<job, frames, mux, layout, cache, req, wbuf, processed, out, pc, status>>

Streams == DOMAIN job.media_types

\* source->last_offset, which mp4_parser_parse_frames derives from the last frame
\* of every track, and what the reader knows of the file
File(source) ==
    LET ends == {p.frames[Len(p.frames)].offset + p.frames[Len(p.frames)].size :
                    p \in {q \in UNION {ToSet(job.clips[c][s].parts) :
                                          c \in DOMAIN job.clips, s \in Streams} :
                             q.source = source /\ q.frames # <<>>}}
    IN [last_offset |-> Max(ends), length |-> job.lengths[source],
        alignment |-> job.alignment]

\* The frames of stream s in all clips, in the order of the trun writers
FramesOf(clips, s) ==
    LET part(p) == [i \in DOMAIN p.frames |-> [source |-> p.source, frame |-> p.frames[i]]]
        track(t) == FlattenSeq([i \in DOMAIN t.parts |-> part(t.parts[i])])
    IN FlattenSeq([c \in DOMAIN clips |-> track(clips[c][s])])

-----------------------------------------------------------------------------
(* The order of the frames *)

PartOf(m, s) == m.media_set[m.clip][s].parts[m.streams[s].part]
HasFrame(m, s) == m.streams[s].frame <= Len(PartOf(m, s).frames)
CurFrame(m, s) == PartOf(m, s).frames[m.streams[s].frame]

mp4_muxer_init_track(track, media_type) ==
    [media_type |-> media_type, part |-> 1, frame |-> 1, time |-> track.start]

mp4_muxer_init_state(clips, media_types) ==
    [media_set |-> clips, clip |-> 1, selected |-> 0, first_time |-> TRUE,
     streams |-> [s \in DOMAIN media_types |-> mp4_muxer_init_track(clips[1][s], media_types[s])]]

mp4_muxer_reinit_tracks(m, clip) ==
    [m EXCEPT !.clip = clip, !.first_time = TRUE,
              !.streams = [s \in DOMAIN @ |->
                    mp4_muxer_init_track(m.media_set[clip][s], @[s].media_type)]]

\* Streams at the end of a part move on to the next one.
AtEnd(m) ==
    {s \in DOMAIN m.streams : ~ HasFrame(m, s) /\ m.streams[s].part < Len(m.media_set[m.clip][s].parts)}
NextPart(stream) == [stream EXCEPT !.part = @ + 1, !.frame = 1]
NextParts(m) ==
    [m EXCEPT !.streams = [s \in DOMAIN @ |-> IF s \in AtEnd(m) THEN NextPart(@[s]) ELSE @[s]],
              !.first_time = @ \/ AtEnd(m) # {}]

\* "prefer the last selected stream, allow 0.25s delay": stream by stream.  The delay
\* is added to the best stream so far, never to the one it is compared with, so a
\* selected stream is preferred to the streams before it only.
Prefer(streams, selected, best, s) ==
    LET penalty == IF best = selected THEN 0 ELSE Timescale \div 4
    IN IF best = 0 \/ streams[s].time < streams[best].time + penalty THEN s ELSE best

Preferred(streams, left, selected) ==
    LET best[s \in 0 .. Len(streams)] ==
            IF s = 0 THEN 0
            ELSE IF s \in left THEN Prefer(streams, selected, best[s - 1], s) ELSE best[s - 1]
    IN best[Len(streams)]

FramesLeft(m) == {s \in DOMAIN m.streams : HasFrame(m, s)}

\* The search for the next frame in a clip: in this one, or in one that follows
PlaceIn(m, clip) == NextParts(IF clip = m.clip THEN m ELSE mp4_muxer_reinit_tracks(m, clip))

\* Where the search ends: in the first clip that has frames
NextPlace(m) ==
    LET places == {PlaceIn(m, c) : c \in m.clip .. Len(m.media_set)}
    IN {p \in places : /\ FramesLeft(p) # {}
                       /\ \A q \in places : FramesLeft(q) # {} => p.clip <= q.clip}

\* VOD_NOT_FOUND otherwise
MoreFrames(m) == NextPlace(m) # {}

\* The muxer with the next stream selected
mp4_muxer_choose_stream(m) ==
    CHOOSE n \in {[p EXCEPT !.selected = Preferred(p.streams, FramesLeft(p), @)] : p \in NextPlace(m)} :
        TRUE

\* The selected stream moves past its frame.
NextFrame(stream, duration) == [stream EXCEPT !.frame = @ + 1, !.time = @ + duration]
TakeFrame(m) ==
    [m EXCEPT !.streams[m.selected] = NextFrame(@, CurFrame(m, m.selected).duration)]

-----------------------------------------------------------------------------
(* The first pass *)

\* mp4_calculate_output_offsets, one round of its loop: the next frame is given
\* its place, in the trun of the frame before it if it follows that one.
assign_offset ==
    /\ pc = "init"
    /\ MoreFrames(mux)
    /\ \E m \in {mp4_muxer_choose_stream(mux)} :
         LET s == m.selected
             given == layout.offsets[s]
             switch == given = <<>> \/ layout.size # given[Len(given)] + layout.last_size[s]
             size == CurFrame(m, s).size
         IN /\ mux' = TakeFrame(m)
            /\ layout' = [offsets |-> [layout.offsets EXCEPT ![s] = Append(@, layout.size)],
                          last_size |-> [layout.last_size EXCEPT ![s] = size],
                          size |-> layout.size + size,
                          truns |-> layout.truns + (IF switch THEN 1 ELSE 0)]
    /\ UNCHANGED <<job, frames, cache, req, wbuf, processed, out, pc, status>>

MediaTypes(m) == [s \in DOMAIN m.streams |-> m.streams[s].media_type]

\* Mutant: the preference of the first pass is kept for the second one.
ResetMuxer_keepsSelected(m) ==
    [mp4_muxer_init_state(m.media_set, MediaTypes(m)) EXCEPT !.selected = m.selected]

\* "reset the state"
ResetMuxer(m) == mp4_muxer_init_state(m.media_set, MediaTypes(m))

\* mp4_muxer_write_video_trun_atoms and the same for audio: a trun for every run of frames
\* of the stream that follow each other in the output.
TrunStarts(stream_frames, offsets) ==
    {k \in DOMAIN offsets :
        k = 1 \/ offsets[k] # offsets[k - 1] + stream_frames[k - 1].frame.size}
trun_atoms == UNION {{s} \X TrunStarts(frames[s], layout.offsets[s]) : s \in Streams}

-----------------------------------------------------------------------------
(* The second pass *)

\* The streams whose next frame may give the hint
HintFrom(m, s, u) ==
    u # s /\ HasFrame(m, u) /\ PartOf(m, u).source = PartOf(m, s).source

\* mp4_muxer_start_frame of the selected stream s: the request for its frame.  The
\* hint is the lowest next offset of the other streams in the same file.
RequestFor(m) ==
    LET s == m.selected
        after == TakeFrame(m)
        others == {u \in DOMAIN m.streams : HintFrom(after, s, u)}
        offset(u) == CurFrame(after, u).offset
        first == CHOOSE u \in others : \A v \in others :
                    offset(u) < offset(v) \/ (offset(u) = offset(v) /\ u <= v)
        hint == IF others = {} THEN [min |-> None, slot |-> 0]
                ELSE [min |-> offset(first), slot |-> m.streams[first].media_type]
    IN StartFrame(PartOf(m, s).source, m.streams[s].media_type, CurFrame(m, s), hint)

NoBuffer == [block |-> 0, pos |-> 0, size |-> 0, stream |-> 0, source |-> NULL, from |-> 0]

\* The stream that identifies the writer
Via(s) == IF job.per_stream_writer THEN s ELSE 0

\* ngx_http_vod_write_segment_buffer, or the encrypting writer of the stream
Write(bytes, w) ==
    bytes \o [i \in 1 .. w.size |->
                [via |-> Via(w.stream), source |-> w.source, offset |-> w.from + i - 1]]

Flushed == Write(out, wbuf)

\* mp4_muxer_start_frame; what a search without success leaves is not used again
mp4_muxer_start_frame(m) ==
    IF MoreFrames(m)
    THEN \E next \in {mp4_muxer_choose_stream(m)} :
            mux' = TakeFrame(next) /\ req' = RequestFor(next)
    ELSE UNCHANGED <<mux, req>>

Finish(result) == pc' = "done" /\ status' = result
ContinueIf(more) == IF more THEN pc' = "process" /\ UNCHANGED status ELSE Finish("OK")

\* The requested range has been written, with the header.
AtLimit(bytes) == job.limit # 0 /\ HeaderSize + Len(bytes) >= job.limit

\* The header that was written has the size that was allocated for it.
SizesAgree ==
    Cardinality(trun_atoms) = layout.truns

\* mp4_muxer_init_fragment and ngx_http_vod_init_frame_processing
init_fragment ==
    LET start == ResetMuxer(mux)
    IN /\ pc = "init"
       /\ ~ MoreFrames(mux)
       /\ IF ~ SizesAgree
          THEN Finish("UNEXPECTED") /\ UNCHANGED <<mux, req>>
          ELSE mp4_muxer_start_frame(start) /\ ContinueIf(MoreFrames(start) /\ ~ AtLimit(<<>>))
       /\ UNCHANGED <<job, frames, layout, cache, wbuf, processed, out>>

\* "if the buffers are contiguous, just increment the size"
Contiguous(w, r, s) ==
    /\ w.block = r.block /\ w.pos + w.size = r.pos
    /\ w.stream = s \/ ~ job.per_stream_writer

\* What is left of the frame
Rest(r) == [req EXCEPT !.cur = @ + r.size]

\* Mutant: what is pending at the end of a part is left to the next piece.
EndsPart_never(r, s) == FALSE

\* The last frame of a part is complete: what is pending is written.
EndsPart(r, s) == r.done /\ ~ HasFrame(mux, s)

\* mp4_muxer_process_frames, data of the frame is in the cache: it is written, or
\* joined to what is waiting to be written.
frame_data ==
    LET r == frames_source_cache_read(cache, req)
        s == mux.selected
        piece == [block |-> r.block, pos |-> r.pos, size |-> r.size, stream |-> s,
                  source |-> r.source, from |-> r.from]
        joined == wbuf.size # 0 /\ Contiguous(wbuf, r, s)
        pending == IF joined THEN [wbuf EXCEPT !.size = @ + r.size] ELSE piece
        before == IF joined THEN out ELSE Flushed
    IN /\ pc = "process"
       /\ Hits(cache, req) # {}
       /\ processed' = TRUE
       /\ CASE job.reuse_buffers -> out' = Write(out, piece) /\ UNCHANGED wbuf
            [] ~ job.reuse_buffers /\ EndsPart(r, s) ->
                 out' = Write(before, pending) /\ wbuf' = NoBuffer
            [] OTHER -> out' = before /\ wbuf' = pending
       /\ IF r.done THEN mp4_muxer_start_frame(mux) /\ ContinueIf(MoreFrames(mux))
          ELSE req' = Rest(r) /\ UNCHANGED <<mux, pc, status>>
       /\ UNCHANGED <<job, frames, layout, cache>>

\* Mutant: what waits to be written is dropped when the muxer is left.
FlushOnAgain_dropped == out

\* "flush the write buffer"
FlushOnAgain == Flushed

\* "no data was handled, probably a truncated file"
NoDataHandled == wbuf.size = 0 /\ ~ processed /\ ~ mux.first_time

\* mp4_muxer_process_frames, the data is not in the cache (VOD_AGAIN), and
\* ngx_http_vod_process_media_frames up to the read.
no_data ==
    /\ pc = "process"
    /\ Hits(cache, req) = {}
    /\ cache' = read_cache_miss(cache, req, File(req.source))
    /\ out' = FlushOnAgain
    /\ wbuf' = NoBuffer
    /\ mux' = [mux EXCEPT !.first_time = @ /\ NoDataHandled]
    /\ CASE NoDataHandled -> Finish("BAD_DATA")
         [] ~ NoDataHandled /\ AtLimit(out') -> Finish("OK")
         [] OTHER -> pc' = "reading" /\ UNCHANGED status
    /\ UNCHANGED <<job, frames, layout, req, processed>>

\* The read ends: at once, or later in ngx_http_vod_handle_read_completed, which
\* refuses an empty read.
read_completed ==
    LET n == BytesRead(cache, File(cache.buffers[cache.target].source))
    IN /\ pc = "reading"
       /\ IF job.aio /\ n = 0
          THEN Finish("BAD_DATA") /\ UNCHANGED cache
          ELSE /\ cache' = read_cache_read_completed(cache, n)
               /\ pc' = "process"
               /\ UNCHANGED status
       /\ processed' = FALSE
       /\ UNCHANGED <<job, frames, mux, layout, req, wbuf, out>>

finished == pc = "done" /\ UNCHANGED vars

Init ==
    /\ \E j \in Jobs : \E i \in j.inputs, c \in j.conditions, a \in Alignments :
         job = [media_types |-> i.media_types, clips |-> i.clips, lengths |-> i.lengths,
                alignment |-> a, per_stream_writer |-> c.per_stream_writer,
                reuse_buffers |-> c.reuse_buffers, aio |-> c.aio, limit |-> c.limit]
    /\ frames = [s \in Streams |-> FramesOf(job.clips, s)]
    /\ mux = mp4_muxer_init_state(job.clips, job.media_types)
    /\ layout = [offsets |-> [s \in Streams |-> <<>>], last_size |-> [s \in Streams |-> 0],
                 size |-> 0, truns |-> 0]
    /\ cache = read_cache_init
    /\ req = StartFrame(NULL, 0, [offset |-> 0, size |-> 0], [min |-> None, slot |-> 0])
    /\ wbuf = NoBuffer
    /\ processed = FALSE
    /\ out = <<>>
    /\ pc = "init"
    /\ status = ""

Next == assign_offset \/ init_fragment \/ frame_data \/ no_data \/ read_completed \/ finished

Spec == Init /\ [][Next]_vars /\ WF_vars(Next)

-----------------------------------------------------------------------------
(* Properties *)

\* The state has the types of the source's structures; a stream's cursor stays
\* within its parts.
TypeOK ==
    /\ cache \in Cache
    /\ req \in Request
    /\ req.cur <= req.end
    /\ pc \in {"init", "process", "reading", "done"}
    /\ status \in {"", "OK", "BAD_DATA", "UNEXPECTED"}
    /\ processed \in BOOLEAN
    /\ mux.clip \in DOMAIN job.clips
    /\ mux.selected \in Streams \cup {0}
    /\ \A s \in Streams : mux.streams[s].frame <= Len(PartOf(mux, s).frames) + 1

\* A read fits the buffer it goes to, and brings the byte that the muxer waits for, or a
\* byte that an aligned or hinted read brings on the way to it: nothing that is cached
\* already (read_cache_get_from_cache, "don't read anything that is already in the cache").
ReadsUseful ==
    pc = "reading" =>
        LET b == cache.buffers[cache.target]
            o == cache.buffers[1 - cache.target]
        IN /\ b.size \in 1 .. BufferSize
           /\ o.source = b.source /\ o.end > o.start =>
                b.start + b.size <= o.start \/ AlignDown(o.end, job.alignment) <= b.start

\* A player that follows the header finds the bytes of every frame, written by
\* the writer of its stream, as far as the segment has been written: the two
\* passes agree, and neither suspensions nor the sharing of slots by streams and
\* sources mix up bytes (mp4_calculate_output_offsets, mp4_muxer_process_frames,
\* read_cache_get_from_cache).
PlayerView ==
    /\ ReadsUseful
    /\ \A s \in Streams : \A k \in DOMAIN layout.offsets[s] :
        LET f == frames[s][k]
            at == layout.offsets[s][k]
        IN \A i \in 0 .. f.frame.size - 1 :
             at + i < Len(out) =>
                out[at + i + 1] = [via |-> Via(s), source |-> f.source,
                                   offset |-> f.frame.offset + i]

\* A segment that ends with VOD_OK has as many bytes as its header announced, or
\* all of the requested range, and never more; the check of the header's own length
\* never fails.
AnnouncedIsSent ==
    /\ status = "OK" =>
         \/ Len(out) = layout.size
         \/ AtLimit(out)
    /\ Len(out) <= layout.size
    /\ status # "UNEXPECTED"

\* A segment fails ("no data was handled, probably a truncated file") only if the file
\* really ends before one of its frames.
FailsIfTruncated ==
    status = "BAD_DATA" =>
        \E s \in Streams : \E k \in DOMAIN frames[s] :
            LET f == frames[s][k]
            IN f.frame.offset + f.frame.size > job.lengths[f.source]

\* The second pass delivers what the first one announced, from every file that is whole
\* (mp4_muxer_init_fragment, mp4_muxer_process_frames).
Complete == AnnouncedIsSent /\ FailsIfTruncated

\* The muxer ends, also on files that end early.
Ends == <>(pc = "done")
=============================================================================
