------------------------------ MODULE HlsFilters ------------------------------
(***************************************************************************)
(* The filters in front of the encoder: mp4_to_annexb of video, the adts   *)
(* headers of aac, the id3 header, and for audio either the joiner         *)
(* (interleaved frames: several frames share a pes until it is 0.7 seconds *)
(* long) or the buffer (frames are kept until there are enough of them or  *)
(* the video has moved on too far).                                        *)
(*                                                                         *)
(* m.filt[s] is the state of the filters of stream s.  A byte is <<frame,  *)
(* i>>, where i > 0 is the i-th byte of the input frame.                   *)
(***************************************************************************)
EXTENDS MpegtsEncoder

CONSTANTS
    BufferSize,             \* DEFAULT_PES_PAYLOAD_SIZE
    BufferedFramesQueue,    \* BUFFERED_FRAMES_QUEUE_SIZE
    FrameOutputInterval,    \* FRAME_OUTPUT_INTERVAL
    AdtsSize, Id3Size,      \* the headers of an aac frame and of id3 text
    AudSize, ExtraDataSize, \* the access unit delimiter and the parameter sets
    MarkerSize,             \* nal_marker, which the later units of a frame get
                            \* without its first byte
    ZeroPadding             \* zero_padding, what is written at a time

ASSUME FiltersAssumption ==
    /\ {BufferSize, BufferedFramesQueue, FrameOutputInterval, AdtsSize, Id3Size, AudSize,
        ExtraDataSize, ZeroPadding} \subseteq Nat \ {0}
    /\ MarkerSize \in Nat \ {0, 1}

\* The bytes the filters add
HEADER == 0
MARKER == -1
AUD == -2
EXTRA_DATA == -3
PADDING == -4

Bytes(frame, kind, count) == [i \in 1 .. count |-> <<frame, kind>>]

Copied(frame, from, to) == [i \in 1 .. (to - from + 1) |-> <<frame, from + i - 1>>]

NoFrame == [n |-> 0, pts |-> 0, dts |-> 0, size |-> 0, header_size |-> 0]

InitFilters ==
    [cur_state |-> "initial", cur_frame |-> NoFrame, last_frame |-> NoFrame,
     data |-> <<>>, last_flush |-> 0,
     ring |-> [i \in 0 .. BufferedFramesQueue - 1 |-> [frame |-> NoFrame, end |-> 0]],
     read_pos |-> 0, write_pos |-> 0, is_full |-> FALSE,
     used_size |-> 0, last_flush_size |-> 0,
     frame_dts |-> NO_TIMESTAMP,
     nal_state |-> "packet_size", nal |-> 0, first_frame_packet |-> TRUE,
     length_bytes_left |-> 0, packet_size_left |-> 0, frame_size_left |-> 0]

Fail(m, status) == [m EXCEPT !.status = status]

-----------------------------------------------------------------------------
(* buffer_filter.c *)

buffer_filter_start_frame(m, s, frame) ==
    LET f == m.filt[s]
    IN IF f.cur_state \notin {"initial", "flushed"} THEN Fail(m, "UNEXPECTED")
       ELSE [m EXCEPT !.filt[s].cur_frame = IF f.cur_state = "initial" THEN frame ELSE @,
                      !.filt[s].last_frame = frame, !.filt[s].cur_state = "started"]

NextSlot(i) == (i + 1) % BufferedFramesQueue

\* The buffered frames are written one by one, so that the encoder knows where they
\* begin; of a ring that overflowed the frames that are lost go with the first one kept.
RECURSIVE WriteBuffered(_, _, _)
WriteBuffered(m, s, p) ==
    LET f == m.filt[s]
        entry == f.ring[f.read_pos]
    IN IF f.read_pos = f.write_pos THEN m
       ELSE WriteBuffered(
              [mpegts_encoder_write(
                 IF p > 0 THEN mpegts_encoder_start_sub_frame(m, s, entry.frame) ELSE m,
                 s, SubSeq(f.data, p + 1, entry.end))
               EXCEPT !.filt[s].read_pos = NextSlot(@)], s, entry.end)

\* With a pes per flush the data is written at once.
WriteFlushed(m, s) ==
    LET f == m.filt[s]
    IN IF m.conf.align THEN mpegts_encoder_write(m, s, SubSeq(f.data, 1, f.last_flush))
       ELSE WriteBuffered(
              [m EXCEPT !.filt[s].is_full = FALSE,
                        !.filt[s].read_pos = IF f.is_full THEN NextSlot(f.write_pos) ELSE @],
              s, 0)

buffer_filter_force_flush(m, s, last_stream_frame) ==
    LET f == m.filt[s]
    IN IF f.last_flush = 0 THEN m
       ELSE [mpegts_encoder_flush_frame(
               WriteFlushed(mpegts_encoder_start_frame(m, s, f.cur_frame), s), s, last_stream_frame)
             EXCEPT !.filt[s].data = SubSeq(f.data, f.last_flush + 1, Len(f.data)),
                    !.filt[s].last_flush = 0,
                    !.filt[s].cur_frame = IF f.cur_state = "started" THEN f.last_frame ELSE @,
                    !.filt[s].cur_state = IF @ = "flushed" THEN "initial" ELSE @]

BufferFits(m, s, size) == Len(m.filt[s].data) + size <= BufferSize

\* The frame goes past the buffer from here on.
GoDirect(m, s) ==
    mpegts_encoder_start_frame([m EXCEPT !.filt[s].cur_state = "direct", !.filt[s].data = <<>>], s,
                               m.filt[s].cur_frame)

\* Bug: what is buffered of the frame is written behind what goes past the buffer.
WriteOrBuffer_BUG(m, s, bytes) ==
    IF BufferFits(m, s, Len(bytes)) THEN [m EXCEPT !.filt[s].data = @ \o bytes]
    ELSE mpegts_encoder_write(mpegts_encoder_write(GoDirect(m, s), s, bytes), s, m.filt[s].data)

\* What does not fit in the buffer goes past it, after what the buffer has of the frame.
WriteOrBuffer(m, s, bytes) ==
    IF BufferFits(m, s, Len(bytes)) THEN [m EXCEPT !.filt[s].data = @ \o bytes]
    ELSE mpegts_encoder_write(
           IF m.filt[s].data # <<>> THEN mpegts_encoder_write(GoDirect(m, s), s, m.filt[s].data)
           ELSE GoDirect(m, s), s, bytes)

buffer_filter_write(m, s, bytes) ==
    CASE m.filt[s].cur_state = "direct" -> mpegts_encoder_write(m, s, bytes)
      [] m.filt[s].cur_state \in {"initial", "flushed"} -> Fail(m, "UNEXPECTED")
      [] m.filt[s].cur_state = "started" ->
           WriteOrBuffer(IF BufferFits(m, s, Len(bytes)) THEN m
                         ELSE buffer_filter_force_flush(m, s, FALSE), s, bytes)

\* The frame is added to the ring of buffered frames.
BufferFrame(m, s) ==
    LET f == m.filt[s]
    IN [m EXCEPT !.filt[s].ring[f.write_pos] = [frame |-> f.last_frame, end |-> Len(f.data)],
                 !.filt[s].write_pos = NextSlot(@),
                 !.filt[s].is_full = @ \/ NextSlot(f.write_pos) = f.read_pos]

\* Bug: the filter stays in direct mode.
buffer_filter_flush_frame_BUG(m, s, last_stream_frame) ==
    LET f == m.filt[s]
        n == [IF m.conf.align THEN m ELSE BufferFrame(m, s)
                EXCEPT !.filt[s].last_flush = Len(f.data), !.filt[s].cur_state = "flushed"]
    IN CASE f.cur_state = "started" ->
              IF last_stream_frame THEN buffer_filter_force_flush(n, s, TRUE) ELSE n
         [] f.cur_state = "direct" -> mpegts_encoder_flush_frame(m, s, last_stream_frame)
         [] OTHER -> m

buffer_filter_flush_frame(m, s, last_stream_frame) ==
    LET f == m.filt[s]
        n == [IF m.conf.align THEN m ELSE BufferFrame(m, s)
                EXCEPT !.filt[s].last_flush = Len(f.data), !.filt[s].cur_state = "flushed"]
    IN CASE f.cur_state = "started" ->
              IF last_stream_frame THEN buffer_filter_force_flush(n, s, TRUE) ELSE n
         [] f.cur_state = "direct" ->
              [mpegts_encoder_flush_frame(m, s, last_stream_frame)
                 EXCEPT !.filt[s].cur_state = "initial"]
         [] OTHER -> m

buffer_filter_get_dts(m, s) ==
    IF m.filt[s].cur_state = "initial" THEN {} ELSE {m.filt[s].cur_frame.dts}

buffer_filter_simulated_force_flush(m, s, last_stream_frame) ==
    LET f == m.filt[s]
    IN IF f.last_flush_size = 0 THEN m
       ELSE [mpegts_encoder_simulated_flush_frame(
               mpegts_encoder_simulated_write(
                 mpegts_encoder_simulated_start_frame(m, s, f.cur_frame), s, f.last_flush_size),
               s, last_stream_frame)
             EXCEPT !.filt[s].used_size = @ - f.last_flush_size,
                    !.filt[s].last_flush_size = 0,
                    !.filt[s].cur_frame = IF f.cur_state = "started" THEN f.last_frame ELSE @,
                    !.filt[s].cur_state = IF @ = "flushed" THEN "initial" ELSE @]

buffer_filter_simulated_start_frame(m, s, frame) ==
    [m EXCEPT !.filt[s].cur_frame = IF m.filt[s].cur_state = "initial" THEN frame ELSE @,
              !.filt[s].last_frame = frame, !.filt[s].cur_state = "started"]

SimWriteOrBuffer(m, s, size) ==
    IF size <= BufferSize THEN [m EXCEPT !.filt[s].used_size = size]
    ELSE [mpegts_encoder_simulated_write(
            mpegts_encoder_simulated_start_frame(m, s, m.filt[s].cur_frame), s, size)
          EXCEPT !.filt[s].cur_state = "direct", !.filt[s].used_size = 0]

SimAppend(m, s, size) == SimWriteOrBuffer(m, s, m.filt[s].used_size + size)

buffer_filter_simulated_write(m, s, size) ==
    IF m.filt[s].cur_state = "direct" THEN mpegts_encoder_simulated_write(m, s, size)
    ELSE SimAppend(IF m.filt[s].used_size + size > BufferSize
                   THEN buffer_filter_simulated_force_flush(m, s, FALSE) ELSE m, s, size)

buffer_filter_simulated_flush_frame(m, s, last_stream_frame) ==
    LET n == [m EXCEPT !.filt[s].last_flush_size = m.filt[s].used_size,
                       !.filt[s].cur_state = "flushed"]
    IN CASE m.filt[s].cur_state = "started" ->
              IF last_stream_frame THEN buffer_filter_simulated_force_flush(n, s, TRUE) ELSE n
         [] m.filt[s].cur_state = "direct" ->
              [mpegts_encoder_simulated_flush_frame(m, s, last_stream_frame)
                 EXCEPT !.filt[s].cur_state = "initial"]
         [] OTHER -> m

-----------------------------------------------------------------------------
(* frame_joiner_filter.c: a pes is flushed when a frame starts that is late enough. *)

JoinerIsOver(m, s, frame) ==
    /\ m.filt[s].frame_dts # NO_TIMESTAMP
    /\ frame.dts >= m.filt[s].frame_dts + FrameOutputInterval

frame_joiner_start_frame(m, s, frame) ==
    LET over == JoinerIsOver(m, s, frame)
    IN IF over \/ m.filt[s].frame_dts = NO_TIMESTAMP
       THEN [mpegts_encoder_start_frame(
               IF over THEN mpegts_encoder_flush_frame(m, s, FALSE) ELSE m, s, frame)
             EXCEPT !.filt[s].frame_dts = frame.dts]
       ELSE mpegts_encoder_start_sub_frame(m, s, frame)

frame_joiner_flush_frame(m, s, last_stream_frame) ==
    IF ~last_stream_frame THEN m
    ELSE mpegts_encoder_flush_frame([m EXCEPT !.filt[s].frame_dts = NO_TIMESTAMP], s, TRUE)

frame_joiner_simulated_start_frame(m, s, frame) ==
    LET over == JoinerIsOver(m, s, frame)
    IN IF over \/ m.filt[s].frame_dts = NO_TIMESTAMP
       THEN [mpegts_encoder_simulated_start_frame(
               IF over THEN mpegts_encoder_simulated_flush_frame(m, s, FALSE) ELSE m, s, frame)
             EXCEPT !.filt[s].frame_dts = frame.dts]
       ELSE m

frame_joiner_simulated_flush_frame(m, s, last_stream_frame) ==
    IF ~last_stream_frame THEN m
    ELSE mpegts_encoder_simulated_flush_frame([m EXCEPT !.filt[s].frame_dts = NO_TIMESTAMP], s, TRUE)

-----------------------------------------------------------------------------
(* The filters of an audio stream below its header *)

AudioStart(m, s, frame) == IF m.conf.interleave THEN frame_joiner_start_frame(m, s, frame)
                           ELSE buffer_filter_start_frame(m, s, frame)

AudioWrite(m, s, bytes) == IF m.conf.interleave THEN mpegts_encoder_write(m, s, bytes)
                           ELSE buffer_filter_write(m, s, bytes)

AudioFlush(m, s, last) == IF m.conf.interleave THEN frame_joiner_flush_frame(m, s, last)
                          ELSE buffer_filter_flush_frame(m, s, last)

SimAudioStart(m, s, frame) == IF m.conf.interleave THEN frame_joiner_simulated_start_frame(m, s, frame)
                              ELSE buffer_filter_simulated_start_frame(m, s, frame)

SimAudioWrite(m, s, size) == IF m.conf.interleave THEN mpegts_encoder_simulated_write(m, s, size)
                             ELSE buffer_filter_simulated_write(m, s, size)

SimAudioFlush(m, s, last) == IF m.conf.interleave THEN frame_joiner_simulated_flush_frame(m, s, last)
                             ELSE buffer_filter_simulated_flush_frame(m, s, last)

\* An aac frame is not finished before its first byte left the packet.
WithAdts(frame) == [frame EXCEPT !.header_size = @ + 1]

adts_encoder_start_frame(m, s, frame) ==
    LET f == [WithAdts(frame) EXCEPT !.size = @ + AdtsSize]
    IN AudioWrite(AudioStart(m, s, f), s, Bytes(frame.n, HEADER, AdtsSize))

adts_encoder_simulated_start_frame(m, s, frame) ==
    SimAudioWrite(SimAudioStart(m, s, WithAdts(frame)), s, AdtsSize)

id3_encoder_start_frame(m, s, frame) ==
    LET f == [frame EXCEPT !.size = @ + Id3Size]
    IN mpegts_encoder_write(mpegts_encoder_start_frame(m, s, f), s, Bytes(frame.n, HEADER, Id3Size))

id3_encoder_simulated_start_frame(m, s, frame) ==
    mpegts_encoder_simulated_write(mpegts_encoder_simulated_start_frame(m, s, frame), s, Id3Size)

-----------------------------------------------------------------------------
(* mp4_to_annexb_filter.c: the length of a nal unit becomes a marker.  An input frame   *)
(* is frame.nals, the sequence of its units with whether they are access unit           *)
(* delimiters; nal_length is nal_packet_size_length.                                    *)

mp4_to_annexb_simulation_supported(conf) == conf.nal_length = MarkerSize

NalHeader(key) == AudSize + (IF key THEN ExtraDataSize ELSE 0)

WriteExtraData(m, s, frame) ==
    IF frame.key THEN mpegts_encoder_write(m, s, Bytes(frame.n, EXTRA_DATA, ExtraDataSize)) ELSE m

mp4_to_annexb_start_frame(m, s, frame) ==
    LET f == [frame EXCEPT !.header_size = @ + AudSize, !.size = @ + NalHeader(frame.key)]
        n == [m EXCEPT !.filt[s].frame_size_left = frame.size,
                       !.filt[s].first_frame_packet = TRUE,
                       !.filt[s].nal_state = "packet_size",
                       !.filt[s].length_bytes_left = m.conf.nal_length,
                       !.filt[s].packet_size_left = 0, !.filt[s].nal = 1]
    IN IF frame.size \in 1 .. m.conf.nal_length THEN Fail(m, "BAD_DATA")
       ELSE WriteExtraData(
              mpegts_encoder_write(mpegts_encoder_start_frame(n, s, f), s,
                                   Bytes(frame.n, AUD, AudSize)), s, frame)

\* The type of the unit is known once its first byte is read.
StartUnit(m, s, frame) ==
    LET f == m.filt[s]
        size == IF f.first_frame_packet THEN MarkerSize ELSE MarkerSize - 1
    IN IF frame.nals[f.nal].aud THEN [m EXCEPT !.filt[s].nal_state = "skip_packet"]
       ELSE [mpegts_encoder_write(m, s, Bytes(frame.n, MARKER, size)) EXCEPT
               !.filt[s].nal_state = "copy_packet", !.filt[s].first_frame_packet = FALSE,
               !.filt[s].frame_size_left = @ - size]

\* The bytes from .. to of the input frame are written.
RECURSIVE mp4_to_annexb_write(_, _, _, _, _)
mp4_to_annexb_write(m, s, frame, from, to) ==
    LET f == m.filt[s]
        read == Min({f.length_bytes_left, to - from + 1})
        \* the bytes of a length are complete with the last of them
        sized == [m EXCEPT !.filt[s].length_bytes_left = @ - read,
                           !.filt[s].packet_size_left =
                              IF read = f.length_bytes_left THEN frame.nals[f.nal].size ELSE @]
        zero == sized.filt[s].packet_size_left = 0
        size == Min({f.packet_size_left, to - from + 1})
        copied == IF f.nal_state = "copy_packet"
                  THEN [mpegts_encoder_write(m, s, Copied(frame.n, from, from + size - 1))
                          EXCEPT !.filt[s].frame_size_left = @ - size]
                  ELSE m
        done == size = f.packet_size_left
        next == [copied EXCEPT
                   !.filt[s].packet_size_left = @ - size,
                   !.filt[s].nal_state = IF done THEN "packet_size" ELSE @,
                   !.filt[s].nal = IF done THEN @ + 1 ELSE @,
                   !.filt[s].length_bytes_left = IF done THEN m.conf.nal_length ELSE @]
    IN IF from > to THEN m
       ELSE CASE f.nal_state = "packet_size" ->
                   IF from + read > to THEN sized
                   ELSE IF zero THEN Fail(sized, "BAD_DATA")
                   ELSE mp4_to_annexb_write([sized EXCEPT !.filt[s].nal_state = "nal_type"],
                                            s, frame, from + read, to)
              [] f.nal_state = "nal_type" ->
                   mp4_to_annexb_write(StartUnit(m, s, frame), s, frame, from, to)
              [] OTHER -> mp4_to_annexb_write(next, s, frame, from + size, to)

Pad(m, s, frame, left) ==
    LET chunks == (left + ZeroPadding - 1) \div ZeroPadding
        size(i) == IF i < chunks THEN ZeroPadding ELSE left - (chunks - 1) * ZeroPadding
    IN FoldLeft(LAMBDA x, i : mpegts_encoder_write(x, s, Bytes(frame.n, PADDING, size(i))),
                m, [i \in 1 .. chunks |-> i])

\* The frame is padded to the size the simulation counted.
mp4_to_annexb_flush_frame(m, s, frame, last_stream_frame) ==
    LET left == m.filt[s].frame_size_left
        padded == IF m.conf.nal_length = MarkerSize /\ left > 0
                  THEN [Pad(m, s, frame, left) EXCEPT !.filt[s].frame_size_left = 0]
                  ELSE m
    IN IF m.conf.nal_length = MarkerSize /\ left < 0 THEN Fail(m, "UNEXPECTED")
       ELSE mpegts_encoder_flush_frame(padded, s, last_stream_frame)

mp4_to_annexb_simulated_start_frame(m, s, frame) ==
    mpegts_encoder_simulated_write(
      mpegts_encoder_simulated_start_frame(m, s, [frame EXCEPT !.header_size = @ + AudSize]),
      s, NalHeader(frame.key))
=============================================================================
