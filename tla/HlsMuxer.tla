------------------------------- MODULE HlsMuxer -------------------------------
(***************************************************************************)
(* vod/hls/hls_muxer.c: a transport stream segment of several streams.     *)
(*                                                                         *)
(* The segment is muxed twice: hls_muxer_simulate_get_segment_size goes    *)
(* over the frames with the simulated filters and tells the Content-Length *)
(* of the response, and hls_muxer_process goes over them again with the    *)
(* data, is left whenever data has to be read, and then sends the buffers  *)
(* no stream writes to any more.  hls_muxer_simulate_get_iframes simulates *)
(* all segments of a presentation for the byte ranges of the i-frame       *)
(* playlist.                                                               *)
(***************************************************************************)
EXTENDS HlsFilters

CONSTANTS
    Presentations,  \* what is muxed
    Confs,          \* the directives it is muxed under
    ReadSizes,      \* of what a read of the frames source returns at a time
    HalfDelay       \* HLS_DELAY / 2

VARIABLES
    job,        \* the presentation, the configuration and the segment that is asked for
    mux,        \* hls_muxer_state_t with the states of its streams
    ready,      \* whether the frames source has data
    pc,         \* "init", "process", "reading" or "done"
    announced,  \* response_size in packets, 0 if it is not known
    iframes     \* what the i-frame playlist says about the presentation

vars == <<job, mux, ready, pc, announced, iframes>>

-----------------------------------------------------------------------------
(* The input: job.clips is a sequence of clips, a clip has a track per stream, a track  *)
(* is [start, parts] and a part is a sequence of frames.  start includes align_pts.     *)

\* hls_muxer_init_id3_stream: one frame, in the first clip that has frames
Id3Track(clips, c) ==
    LET has == {k \in DOMAIN clips : \E p \in DOMAIN clips[k][1].parts : clips[k][1].parts[p] # <<>>}
        frame == [size |-> job.conf.id3, duration |-> 0, pts_delay |-> 0, key |-> TRUE, nals |-> <<>>]
    IN [start |-> clips[c][1].start,
        parts |-> << IF has # {} /\ c = Min(has) THEN <<frame>> ELSE <<>> >>]

hls_muxer_init_id3_stream(clips) ==
    IF job.conf.id3 = 0 THEN clips
    ELSE [c \in DOMAIN clips |-> Append(clips[c], Id3Track(clips, c))]

Streams(m) == DOMAIN m.strm

-----------------------------------------------------------------------------
(* Choosing frames *)

\* hls_muxer_init_track of all streams, with the tracks of clip c
InitTracks(m, clips, c) ==
    [m EXCEPT !.clip = c, !.first_time = TRUE,
              !.strm = [s \in DOMAIN clips[c] |->
                          [@[s] EXCEPT !.part = 1, !.frame = 1, !.time = clips[c][s].start]]]

HasFrames(m, clips, s) == m.strm[s].frame <= Len(clips[m.clip][s].parts[m.strm[s].part])

HasNextPart(m, clips, s) == m.strm[s].part < Len(clips[m.clip][s].parts)

NextParts(m, clips) ==
    LET over == {s \in Streams(m) : ~HasFrames(m, clips, s) /\ HasNextPart(m, clips, s)}
    IN [m EXCEPT !.first_time = @ \/ over # {},
                 !.strm = [s \in Streams(m) |->
                             IF s \in over THEN [@[s] EXCEPT !.part = @ + 1, !.frame = 1] ELSE @[s]]]

\* has_frames: a next part is taken to have some (concat_clip_concat and the mkv parser link no
\* part that is empty).
MayHaveFrames(m, clips, s) == HasFrames(m, clips, s) \/ HasNextPart(m, clips, s)

\* The stream whose next frame is the first, and the clip it is in; NULL is VOD_NOT_FOUND.
RECURSIVE hls_muxer_choose_stream(_, _)
hls_muxer_choose_stream(m, clips) ==
    LET has == {s \in Streams(m) : MayHaveFrames(m, clips, s)}
        some == {s \in has : m.strm[s].time < m.strm[s].segment_limit}
        next == InitTracks(m, clips, m.clip + 1)
    IN IF some # {}
       THEN [m |-> NextParts(m, clips),
             s |-> Min({s \in some : \A r \in some : m.strm[s].time <= m.strm[r].time})]
       ELSE IF m.clip = Len(clips) \/ has # {} THEN [m |-> NextParts(m, clips), s |-> NULL]
       ELSE IF job.use_discontinuity THEN [m |-> next, s |-> NULL]
       ELSE hls_muxer_choose_stream(next, clips)

\* The frame of stream s is taken; it is the n-th of the stream.
TakeFrame(m, clips, s) ==
    [m EXCEPT !.strm[s].frame = @ + 1, !.strm[s].count = @ + 1,
              !.strm[s].time = @ + clips[m.clip][s].parts[m.strm[s].part][m.strm[s].frame].duration]

OutputFrame(m, clips, s) ==
    LET f == clips[m.clip][s].parts[m.strm[s].part][m.strm[s].frame]
    IN [n |-> m.strm[s].count + 1, pts |-> m.strm[s].time + f.pts_delay, dts |-> m.strm[s].time,
        key |-> f.key, size |-> f.size, header_size |-> 0, nals |-> f.nals]

\* of the stream, after its frame was taken
IsLastFrame(m, clips, s) == ~HasFrames(m, clips, s) /\ ~HasNextPart(m, clips, s)

\* Buffered frames of other streams are flushed when their delay becomes too big.
FlushDelayed(m, selected, dts, simulated) ==
    LET late(x, s) == /\ s # selected /\ x.conf.kinds[s] = "audio" /\ ~x.conf.interleave
                      /\ \E b \in buffer_filter_get_dts(x, s) : dts > b + HalfDelay
        flush(x, s) == IF simulated THEN buffer_filter_simulated_force_flush(x, s, FALSE)
                       ELSE buffer_filter_force_flush(x, s, FALSE)
    IN FoldLeft(LAMBDA x, s : IF late(x, s) THEN flush(x, s) ELSE x,
                m, [s \in Streams(m) |-> s])

-----------------------------------------------------------------------------
(* The filters of a stream *)

StartFrame(m, s, frame) ==
    CASE m.conf.kinds[s] = "video" -> mp4_to_annexb_start_frame(m, s, frame)
      [] m.conf.kinds[s] = "id3" -> id3_encoder_start_frame(m, s, frame)
      [] m.conf.kinds[s] = "audio" /\ m.conf.aac -> adts_encoder_start_frame(m, s, frame)
      [] OTHER -> AudioStart(m, s, frame)

\* bytes from .. to of the frame
WriteFrame(m, s, frame, from, to) ==
    CASE m.conf.kinds[s] = "video" -> mp4_to_annexb_write(m, s, frame, from, to)
      [] m.conf.kinds[s] = "audio" -> AudioWrite(m, s, Copied(frame.n, from, to))
      [] m.conf.kinds[s] = "id3" -> mpegts_encoder_write(m, s, Copied(frame.n, from, to))

FlushFrame(m, s, frame, last) ==
    CASE m.conf.kinds[s] = "video" -> mp4_to_annexb_flush_frame(m, s, frame, last)
      [] m.conf.kinds[s] = "audio" -> AudioFlush(m, s, last)
      [] m.conf.kinds[s] = "id3" -> mpegts_encoder_flush_frame(m, s, last)

\* hls_muxer_simulation_write_frame
SimulateFrame(m, s, frame, last) ==
    CASE m.conf.kinds[s] = "video" ->
           mpegts_encoder_simulated_flush_frame(
             mpegts_encoder_simulated_write(
               mp4_to_annexb_simulated_start_frame(m, s, frame), s, frame.size), s, last)
      [] m.conf.kinds[s] = "id3" ->
           mpegts_encoder_simulated_flush_frame(
             mpegts_encoder_simulated_write(
               id3_encoder_simulated_start_frame(m, s, frame), s, frame.size), s, last)
      [] m.conf.kinds[s] = "audio" ->
           LET n == IF m.conf.aac THEN adts_encoder_simulated_start_frame(m, s, frame)
                    ELSE SimAudioStart(m, s, frame)
           IN SimAudioFlush(SimAudioWrite(n, s, frame.size), s, last)

-----------------------------------------------------------------------------
(* Segments *)

UNLIMITED == 1000000

\* The first clip's streams, with an encoder and filters each
hls_muxer_init_base(clips, segment_index) ==
    LET kinds == IF job.conf.id3 = 0 THEN job.kinds ELSE Append(job.kinds, "id3")
        m == [conf |-> [kinds |-> kinds, aac |-> job.aac, nal_length |-> job.nal_length,
                        interleave |-> job.conf.interleave, align |-> job.conf.align],
              enc |-> [s \in DOMAIN kinds |-> mpegts_encoder_init(kinds[s], segment_index)],
              filt |-> [s \in DOMAIN kinds |-> InitFilters],
              strm |-> [s \in DOMAIN kinds |->
                          [part |-> 1, frame |-> 1, time |-> 0, count |-> 0,
                           segment_limit |-> UNLIMITED, is_first_segment_frame |-> TRUE,
                           prev_key_frame |-> FALSE, prev_frame_pts |-> 0]],
              queue |-> InitQueue, clip |-> 1, first_time |-> TRUE,
              stream |-> NULL, frame |-> NoFrame, left |-> 0, last |-> FALSE,
              wrote_data |-> FALSE, status |-> "OK"]
    IN InitTracks(m, clips, 1)

\* c is what hls_muxer_choose_stream returned.
SimulateTaken(m, clips, s, frame) == SimulateFrame(m, s, frame, IsLastFrame(m, clips, s))

SimulateChosen(c, clips) ==
    LET f == OutputFrame(c.m, clips, c.s)
    IN SimulateTaken(FlushDelayed(TakeFrame(c.m, clips, c.s), c.s, f.dts, TRUE), clips, c.s, f)

RECURSIVE SimulateSegment(_, _)
SimulateSegment(c, clips) ==
    IF c.s = NULL THEN c.m
    ELSE SimulateSegment(hls_muxer_choose_stream(SimulateChosen(c, clips), clips), clips)

hls_muxer_simulate_get_segment_size(m, clips) ==
    SimulateSegment(hls_muxer_choose_stream(mpegts_encoder_simulated_start_segment(m), clips), clips)

\* The cursors go back to the first frames; filters and encoders are as they were left.
hls_muxer_simulation_reset(m, clips) ==
    [InitTracks(mpegts_encoder_simulated_start_segment(m), clips, 1)
       EXCEPT !.strm = [s \in Streams(m) |-> [@[s] EXCEPT !.count = 0]],
              !.first_time = IF Len(clips) > 1 THEN TRUE ELSE m.first_time]

StartTaken(m, clips, s, frame) ==
    StartFrame([m EXCEPT !.stream = s, !.frame = frame, !.left = frame.size,
                         !.last = IsLastFrame(m, clips, s)], s, frame)

StartChosen(c, clips) ==
    LET f == OutputFrame(c.m, clips, c.s)
    IN IF c.s = NULL THEN [c.m EXCEPT !.stream = NULL]
       ELSE StartTaken(FlushDelayed(TakeFrame(c.m, clips, c.s), c.s, f.dts, FALSE), clips, c.s, f)

hls_muxer_start_frame(m, clips) == StartChosen(hls_muxer_choose_stream(m, clips), clips)

\* What no stream is going to write to any more is sent.
hls_muxer_send(m) ==
    LET offsets == {m.queue.cur_offset} \cup {m.enc[s].send_queue_offset : s \in Streams(m)}
    IN [m EXCEPT !.queue = write_buffer_queue_send(@, Min(offsets))]

Clips == hls_muxer_init_id3_stream(job.clips)

SimulationSupported == "video" \in ToSet(job.kinds) => mp4_to_annexb_simulation_supported(job)

-----------------------------------------------------------------------------
(* hls_muxer_simulate_get_iframes: job.whole is the presentation as one clip, and its   *)
(* segment k ends at job.ends[k]; the last one has no limit.                            *)

SetLimit(m, k) ==
    [m EXCEPT !.strm = [s \in Streams(m) |->
        [@[s] EXCEPT !.segment_limit = IF k = Len(job.ends) THEN UNLIMITED ELSE job.ends[k],
                     !.is_first_segment_frame = TRUE]]]

NoIframe == [n |-> 0, time |-> 0, start |-> 0, size |-> 0, segment |-> 0]

\* callback: a key frame is listed when the time of the next one is known.
List(found, key, next_time) ==
    IF key.size # 0 /\ next_time > key.time THEN Append(found, key) ELSE found

NextIframe(list, key) == [key |-> key, found |-> List(list.found, list.key, key.time)]

\* The frame before this one is complete, and the last one of a segment is, too.
ListIframes(m, s, f, last, k, list) ==
    LET old == m.strm[s]
        e == m.enc[s]
        list1 == IF old.is_first_segment_frame \/ ~old.prev_key_frame THEN list
                 ELSE NextIframe(list,
                        [n |-> f.n - 1, time |-> old.prev_frame_pts, segment |-> k,
                         start |-> e.last_frame_start_pos,
                         size |-> e.last_frame_end_pos - e.last_frame_start_pos])
    IN IF last /\ f.key
       THEN NextIframe(list1,
              [n |-> f.n, time |-> f.pts, segment |-> k, start |-> e.cur_frame_start_pos,
               size |-> e.cur_frame_end_pos - e.cur_frame_start_pos])
       ELSE list1

FrameSimulated(m, s, f, last, k, list) ==
    IF m.conf.kinds[s] # "video" THEN [m |-> m, list |-> list]
    ELSE [m |-> [m EXCEPT !.strm[s].prev_key_frame = f.key, !.strm[s].prev_frame_pts = f.pts,
                          !.strm[s].is_first_segment_frame = FALSE],
          list |-> ListIframes(m, s, f, last, k, list)]

SimulateListed(m, clips, s, f, k, list) ==
    LET last == IsLastFrame(m, clips, s) \/ m.strm[s].time >= m.strm[s].segment_limit
    IN FrameSimulated(SimulateFrame(m, s, f, last), s, f, last, k, list)

ChosenSimulated(c, clips, k, list) ==
    LET f == OutputFrame(c.m, clips, c.s)
    IN SimulateListed(FlushDelayed(TakeFrame(c.m, clips, c.s), c.s, f.dts, TRUE), clips, c.s, f, k, list)

RECURSIVE SimulateIframes(_, _, _), ChosenIframes(_, _, _, _)
SimulateIframes(x, clips, k) ==
    ChosenIframes(hls_muxer_choose_stream(x.m, clips), clips, k, x.list)

ChosenIframes(c, clips, k, list) ==
    IF c.s # NULL THEN SimulateIframes(ChosenSimulated(c, clips, k, list), clips, k)
    ELSE IF k = Len(job.ends) THEN List(list.found, list.key, UNLIMITED)
    ELSE SimulateIframes([m |-> mpegts_encoder_simulated_start_segment(SetLimit(c.m, k + 1)),
                          list |-> list], clips, k + 1)

hls_muxer_simulate_get_iframes ==
    LET clips == hls_muxer_init_id3_stream(job.whole)
        m == SetLimit(hls_muxer_init_base(clips, 0), 1)
    IN IF job.whole = <<>> \/ ~SimulationSupported THEN <<>>
       ELSE SimulateIframes([m |-> mpegts_encoder_simulated_start_segment(m),
                             list |-> [key |-> NoIframe, found |-> <<>>]], clips, 1)

-----------------------------------------------------------------------------
Init ==
    /\ \E p \in Presentations, c \in Confs : \E k \in DOMAIN p.segments :
         job = [clips |-> p.segments[k], segment |-> k, whole |-> p.whole, ends |-> p.ends, firsts |-> p.firsts,
                kinds |-> p.kinds, aac |-> p.aac, nal_length |-> p.nal_length,
                use_discontinuity |-> p.use_discontinuity, truncated |-> p.truncated, conf |-> c]
    /\ mux = hls_muxer_init_base(Clips, job.segment)
    /\ ready = FALSE /\ pc = "init" /\ announced = 0 /\ iframes = <<>>

Ended(m) == m.stream = NULL \/ m.status # "OK"

\* hls_muxer_init_segment
InitSegment ==
    /\ pc = "init"
    /\ \E sim \in {IF SimulationSupported THEN hls_muxer_simulate_get_segment_size(mux, Clips)
                   ELSE mux} :
         /\ announced' = IF SimulationSupported THEN sim.queue.cur_offset ELSE 0
         /\ \E m \in {hls_muxer_start_frame(
                        IF SimulationSupported THEN hls_muxer_simulation_reset(sim, Clips)
                        ELSE sim, Clips)} :
              /\ mux' = m
              /\ pc' = IF Ended(m) THEN "done" ELSE "process"
    /\ iframes' = hls_muxer_simulate_get_iframes
    /\ UNCHANGED <<job, ready>>

\* The frames source has data: some bytes of the frame are written, and with the last
\* of them the frame is flushed and the next one is started.
Write ==
    /\ pc = "process" /\ ready
    /\ \E size \in {r \in ReadSizes : r < mux.left} \cup {mux.left}, r \in BOOLEAN :
         \E w \in {WriteFrame([mux EXCEPT !.wrote_data = TRUE, !.left = @ - size], mux.stream,
                              mux.frame, mux.frame.size - mux.left + 1,
                              mux.frame.size - mux.left + size)} :
         \E f \in {IF w.status # "OK" \/ w.left > 0 THEN w
                   ELSE FlushFrame(w, w.stream, w.frame, w.last)} :
         \E m \in {IF f.status # "OK" \/ w.left > 0 THEN f ELSE hls_muxer_start_frame(f, Clips)} :
              /\ mux' = IF Ended(m) /\ m.status = "OK"
                        THEN [m EXCEPT !.queue = write_buffer_queue_flush(@)] ELSE m
              /\ pc' = IF Ended(m) THEN "done" ELSE "process"
              /\ ready' = r
    /\ UNCHANGED <<job, announced, iframes>>

\* read returned VOD_AGAIN
Again ==
    /\ pc = "process" /\ ~ready
    /\ IF ~mux.wrote_data /\ ~mux.first_time
       THEN mux' = Fail(mux, "BAD_DATA") /\ pc' = "done"
       ELSE mux' = [hls_muxer_send(mux) EXCEPT !.first_time = FALSE] /\ pc' = "reading"
    /\ UNCHANGED <<job, ready, announced, iframes>>

\* The read ended, and hls_muxer_process is entered again.
ReadDone ==
    /\ pc = "reading"
    /\ ready' \in IF job.truncated THEN BOOLEAN ELSE {TRUE}
    /\ mux' = [mux EXCEPT !.wrote_data = FALSE]
    /\ pc' = "process"
    /\ UNCHANGED <<job, announced, iframes>>

Next == InitSegment \/ Write \/ Again \/ ReadDone

Spec == Init /\ [][Next]_vars

-----------------------------------------------------------------------------
(* What a player finds in the segment *)

IsComplete == pc = "done" /\ mux.status = "OK"

PacketsOf(s) == SelectSeq(mux.queue.out, LAMBDA p : p.pid = s)

FlatData(packets) == FoldLeft(LAMBDA d, p : d \o p.data, <<>>, packets)

\* The input frames of stream s with the times they have
RECURSIVE Timed(_, _)
Timed(frames, time) ==
    IF frames = <<>> THEN <<>>
    ELSE <<[Head(frames) EXCEPT !.pts_delay = @ + time]>>
           \o Timed(Tail(frames), time + Head(frames).duration)

FramesOf(s) ==
    FoldLeft(LAMBDA all, clip : all \o Timed(FlattenSeq(clip[s].parts), clip[s].start), <<>>, Clips)

\* The elementary stream of an annexb frame: its units with markers, without access unit
\* delimiters, and zeros to the size of the input if a length is as long as a marker.
AnnexbFrame(n, frame) ==
    LET before(k) == FoldLeft(LAMBDA x, u : x + job.nal_length + u.size, 0,
                              SubSeq(frame.nals, 1, k - 1))
        kept == SelectSeq([k \in DOMAIN frame.nals |-> k], LAMBDA k : ~frame.nals[k].aud)
        unit(i) == LET k == kept[i]
                       from == before(k) + job.nal_length + 1
                   IN Bytes(n, MARKER, IF i = 1 THEN MarkerSize ELSE MarkerSize - 1)
                        \o Copied(n, from, from + frame.nals[k].size - 1)
        units == FlattenSeq([i \in DOMAIN kept |-> unit(i)])
    IN Bytes(n, AUD, AudSize) \o (IF frame.key THEN Bytes(n, EXTRA_DATA, ExtraDataSize) ELSE <<>>)
         \o units
         \o (IF job.nal_length = MarkerSize THEN Bytes(n, PADDING, frame.size - Len(units)) ELSE <<>>)

ElementaryFrame(s, n, frame) ==
    LET bytes == Copied(n, 1, frame.size)
    IN CASE mux.conf.kinds[s] = "video" -> AnnexbFrame(n, frame)
         [] mux.conf.kinds[s] = "id3" -> Bytes(n, HEADER, Id3Size) \o bytes
         [] mux.conf.kinds[s] = "audio" ->
              IF job.aac THEN Bytes(n, HEADER, AdtsSize) \o bytes ELSE bytes

ElementaryStream(s) ==
    FlattenSeq([n \in DOMAIN FramesOf(s) |-> ElementaryFrame(s, n, FramesOf(s)[n])])

\* The indexes of the packets of a stream that begin a pes, and the packets of one
PesStarts(packets) == {i \in DOMAIN packets : packets[i].pes # <<>>}

PesPackets(packets, i) ==
    LET later == {j \in PesStarts(packets) : j > i}
    IN SubSeq(packets, i, IF later = {} THEN Len(packets) ELSE Min(later) - 1)

-----------------------------------------------------------------------------
(* Properties *)

\* A packet does not change once its buffer was sent: send_queue_offset of every stream
\* is behind the packet it fills and the one whose pes size it still has to write
\* (a sent buffer is reused, or belongs to the connection).
SentStays == mux.queue.out = SubSeq(mux.queue.packets, 1, Len(mux.queue.out))

\* Every byte of every frame is in the packets of its stream, once and in order, however
\* the reads split the frames, with the headers, markers and padding that belong there.
FramesDelivered ==
    IsComplete => \A s \in DOMAIN mux.conf.kinds : FlatData(PacketsOf(s)) = ElementaryStream(s)

\* All packets are full and the continuity counters have no gap, neither inside the
\* segment nor to the next one, which begins anew (the id3 stream: with its number).
Continuity ==
    IsComplete =>
      \A s \in DOMAIN mux.conf.kinds :
        LET packets == PacketsOf(s)
            first == mux.enc[s].initial_cc
            next == IF mux.conf.kinds[s] = "id3" THEN job.segment + 1 ELSE 0
        IN /\ \A i \in DOMAIN packets :
                /\ packets[i].cc = (first + i - 1) % CcModulo
                /\ Used(mux, s, packets[i]) = Usable
           /\ (first + Len(packets)) % CcModulo = next % CcModulo \/ packets = <<>>

\* A pes header is at the start of a packet only, its size counts the bytes up to the next
\* one (0 where it is not bounded), also when another stream closed the packet in which
\* the next one would have been.
PesSizes ==
    IsComplete =>
      \A s \in DOMAIN mux.conf.kinds : \A i \in PesStarts(PacketsOf(s)) :
        LET packets == PacketsOf(s)
            size == Len(FlatData(PesPackets(packets, i))) + PesSizeOverhead(mux, s)
        IN /\ Len(packets[i].pes) = 1
           /\ packets[i].pes[1].size =
                IF mux.conf.kinds[s] = "video" /\ ~mux.conf.align THEN 0 ELSE PesSizeField(size)

\* The time of a pes is that of the first frame that begins in it, although the header is
\* pushed in front of the end of an earlier frame and of frames that were joined to it.
PesTimes ==
    IsComplete =>
      \A s \in DOMAIN mux.conf.kinds :
        LET packets == PacketsOf(s)
            before(i) == Len(FlatData(SubSeq(packets, 1, i - 1)))
            stream == ElementaryStream(s)
            begins(k) == k = 1 \/ stream[k - 1][1] # stream[k][1]
            first(i) == {k \in before(i) + 1 .. before(i) + Len(FlatData(PesPackets(packets, i))) :
                           begins(k)}
        IN \A i \in PesStarts(packets) :
             /\ first(i) # {}
             /\ packets[i].pes[1].pts = FramesOf(s)[stream[Min(first(i))][1]].pts_delay

\* A demultiplexer gets every stream back, with the right times and without a gap.
StreamsDecode == FramesDelivered /\ Continuity /\ PesSizes /\ PesTimes

\* The byte range of a key frame begins with its pes and contains the whole frame.
RangesAreIframes ==
    IsComplete =>
      \A i \in {k \in DOMAIN iframes : iframes[k].segment = job.segment} :
        LET r == iframes[i]
            first == job.firsts[r.segment]
            range == SubSeq(mux.queue.out, r.start - HeaderPackets + 1,
                            r.start - HeaderPackets + r.size)
            video == Min({s \in DOMAIN mux.conf.kinds : mux.conf.kinds[s] = "video"})
            n == r.n - first
        IN /\ range # <<>> /\ range[1].pid = video /\ range[1].pes # <<>>
           /\ SelectSeq(FlatData(SelectSeq(range, LAMBDA p : p.pid = video)),
                        LAMBDA b : b[1] = n) = ElementaryFrame(video, n, FramesOf(video)[n])

\* What was announced is sent: a segment whose file is complete ends well, with as many packets
\* as the Content-Length said (the simulated filters of hls_muxer_simulate_get_segment_size count
\* what the real ones write, and leave nothing behind that changes it), and the byte ranges of the
\* i-frame playlist are those of the key frames in the segments that are really sent, although
\* the playlist simulates all segments in one go.  With id3 timestamps they are not: see
\* Id3IframeRanges.
AnnouncedIsSent ==
    /\ pc = "done" /\ ~job.truncated => mux.status = "OK"
    /\ IsComplete /\ SimulationSupported => announced = HeaderPackets + Len(mux.queue.out)
    /\ job.conf.id3 = 0 => RangesAreIframes

\* The same with id3 timestamps, which README.md says every segment gets; the simulation
\* of the playlist has them in the first segment only.
Id3IframeRanges == job.conf.id3 # 0 => RangesAreIframes

=============================================================================
