----------------------------- MODULE MpegtsEncoder -----------------------------
(***************************************************************************)
(* vod/hls/mpegts_encoder_filter.c over vod/write_buffer_queue.c: the      *)
(* packets of one transport stream segment, and the simulation that tells  *)
(* beforehand how many there will be.                                      *)
(*                                                                         *)
(* An encoder of one stream fills its current packet, which is either in   *)
(* the queue it shares with the other streams or, when frames are          *)
(* interleaved, a packet of its own that is copied to the queue once it    *)
(* is complete.  A pes header is pushed in front of what is already in the *)
(* packet, and its size field is written later through a pointer.          *)
(*                                                                         *)
(* The operators take the state m of the muxer and return the next one.    *)
(* m.enc[s] is mpegts_encoder_state_t of stream s, m.queue the write       *)
(* buffer queue, m.conf the configuration with the kinds of the streams.   *)
(* Offsets are counted in packets and a byte of a stream is a token.       *)
(***************************************************************************)
EXTENDS Integers, Sequences, SequencesExt

CONSTANTS
    Usable,         \* MPEGTS_PACKET_USABLE_SIZE
    PesSize,        \* a pes header with a pts,
    PesPrefix,      \* its part that is not counted in the size field,
    PcrSize,        \* what the adaptation field of the first stream adds to it,
    DtsSize,        \* and a dts
    MaxPesSize,     \* of the size field
    CcModulo,       \* of the continuity counter
    BufferPackets,  \* packets of a buffer of the queue,
    Slack           \* and 1 if its size is not a multiple of a packet

ASSUME SizesAssumption ==
    /\ {Usable, PesSize, PcrSize, DtsSize, MaxPesSize, CcModulo, BufferPackets} \subseteq Nat \ {0}
    /\ PesPrefix \in 0 .. PesSize
    /\ PesSize + PcrSize + DtsSize < Usable
    /\ Slack \in {0, 1}

NULL == 0
TEMP == -1          \* temp_packet
NO_TIMESTAMP == -1
NOT_SET == -1       \* of the positions of the simulation
MAX_OFFSET == 1000000
HeaderPackets == 2  \* the PAT and the PMT

-----------------------------------------------------------------------------
(* write_buffer_queue.c *)

\* A buffer holds the count packets after the first ones; bufs is the list in its
\* order, cur is the place of cur_write_buffer in it.  packets are all packets that
\* were allocated, out the content of those the write callback has seen.
InitQueue == [cur_offset |-> 0, base |-> 0, packets |-> <<>>, out |-> <<>>,
              bufs |-> <<>>, cur |-> NULL, last_writer |-> NULL]

EmptyBuffer == [first |-> 0, count |-> 0, end_offset |-> 0]

HasRoom(q) == q.cur # NULL /\ q.bufs[q.cur].count < BufferPackets

\* The buffer the next packet is allocated from: the current one, the next link, or
\* a new link at the tail
NextBuffer(q) ==
    IF HasRoom(q) THEN q
    ELSE LET next == IF q.cur # NULL /\ q.cur < Len(q.bufs) THEN q.cur + 1 ELSE Len(q.bufs) + 1
             bufs == IF next > Len(q.bufs) THEN Append(q.bufs, EmptyBuffer) ELSE q.bufs
         IN [q EXCEPT !.bufs = [bufs EXCEPT ![next].first = Len(q.packets),
                                            ![next].end_offset = q.cur_offset + BufferPackets + Slack],
                      !.cur = next]

AddToBuffer(q, writer, packet) ==
    [q EXCEPT !.bufs[q.cur].count = @ + 1, !.packets = Append(@, packet),
              !.cur_offset = @ + 1, !.last_writer = writer]

write_buffer_queue_get_buffer(q, writer, packet) == AddToBuffer(NextBuffer(q), writer, packet)

\* The write callback sees the packets of a buffer
Callback(q, b) == [q EXCEPT !.out = @ \o SubSeq(q.packets, b.first + 1, b.first + b.count)]

\* The buffers at the head that end before max_offset are sent and go to the tail.
RECURSIVE write_buffer_queue_send(_, _)
write_buffer_queue_send(q, max_offset) ==
    IF q.bufs = <<>> \/ Head(q.bufs).count = 0 \/ Head(q.bufs).end_offset > max_offset
    THEN q
    ELSE write_buffer_queue_send(
           [Callback(q, Head(q.bufs)) EXCEPT
              !.bufs = Append(Tail(@), EmptyBuffer),
              !.cur = IF @ <= 1 THEN NULL ELSE @ - 1], max_offset)

RECURSIVE write_buffer_queue_flush(_)
write_buffer_queue_flush(q) ==
    IF q.bufs = <<>> THEN q
    ELSE write_buffer_queue_flush([Callback(q, Head(q.bufs)) EXCEPT !.bufs = Tail(@)])

-----------------------------------------------------------------------------
(* The streams *)

\* Bug: the id3 stream begins every segment with the same continuity counter.
mpegts_encoder_init_BUG(kind, segment_index) ==
    [cc |-> 0, initial_cc |-> 0, at |-> NULL, temp |-> <<>>, pes_at |-> NULL,
     pes_bytes_written |-> 0, flushed_frame_bytes |-> 0, packet_bytes_left |-> 0,
     header_size |-> 0, last_frame_pts |-> NO_TIMESTAMP, last_queue_offset |-> 0,
     send_queue_offset |-> 0,
     temp_packet_size |-> 0, cur_frame_start_pos |-> 0, cur_frame_end_pos |-> 0,
     last_frame_start_pos |-> 0, last_frame_end_pos |-> 0]

\* mpegts_encoder_init: the continuity counter of the id3 stream follows the number of
\* the segment, because that stream gets no null packets.
mpegts_encoder_init(kind, segment_index) ==
    LET cc == IF kind = "id3" THEN segment_index % CcModulo ELSE 0
    IN [cc |-> cc, initial_cc |-> cc, at |-> NULL, temp |-> <<>>, pes_at |-> NULL,
        pes_bytes_written |-> 0, flushed_frame_bytes |-> 0, packet_bytes_left |-> 0,
        header_size |-> 0, last_frame_pts |-> NO_TIMESTAMP, last_queue_offset |-> 0,
        send_queue_offset |-> 0,
        temp_packet_size |-> 0, cur_frame_start_pos |-> 0, cur_frame_end_pos |-> 0,
        last_frame_start_pos |-> 0, last_frame_end_pos |-> 0]

mpegts_get_pes_header_size(m, s) ==
    PesSize + (IF s = 1 THEN PcrSize ELSE 0) + (IF m.conf.kinds[s] = "video" THEN DtsSize ELSE 0)

\* The part of a pes header that is counted in its size
PesSizeOverhead(m, s) ==
    PesSize - PesPrefix + (IF m.conf.kinds[s] = "video" THEN DtsSize ELSE 0)

-----------------------------------------------------------------------------
(* The current packet *)

\* cur_packet_start .. cur_pos; temp is a sequence of at most one packet.
Packet(m, s) == IF m.enc[s].at = TEMP THEN m.enc[s].temp[1] ELSE m.queue.packets[m.enc[s].at]

Used(m, s, p) == mpegts_get_pes_header_size(m, s) * Len(p.pes) + Len(p.data) + p.stuffing

\* cur_pos >= cur_packet_end
IsFull(m, s) == m.enc[s].at = NULL \/ Used(m, s, Packet(m, s)) = Usable

Room(m, s) == IF m.enc[s].at = NULL THEN 0 ELSE Usable - Used(m, s, Packet(m, s))

\* A write through a pointer into the temp packet or the queue
StoreAt(m, s, at, p) ==
    IF at = TEMP THEN [m EXCEPT !.enc[s].temp = <<p>>] ELSE [m EXCEPT !.queue.packets[at] = p]

InTemp(m, s) == m.enc[s].at = TEMP /\ m.conf.interleave

\* A packet p of stream s is put in the queue; its index is Len(m.queue.packets) then.
Allocate(m, s, p) ==
    [m EXCEPT !.enc[s].last_queue_offset = m.queue.cur_offset,
              !.queue = write_buffer_queue_get_buffer(@, s, p)]

\* cur_packet_start is in the packet that was allocated last.
AtLast(m, s) == [m EXCEPT !.enc[s].at = Len(m.queue.packets)]

EmptyPacket(m, s) == [pid |-> s, cc |-> m.enc[s].cc, pes |-> <<>>, data |-> <<>>, stuffing |-> 0]

mpegts_encoder_init_packet(m, s, write_direct) ==
    [IF write_direct \/ ~m.conf.interleave THEN AtLast(Allocate(m, s, EmptyPacket(m, s)), s)
     ELSE [m EXCEPT !.enc[s].at = TEMP, !.enc[s].temp = <<EmptyPacket(m, s)>>]
       EXCEPT !.enc[s].last_frame_pts = NO_TIMESTAMP,
              !.enc[s].cc = (@ + 1) % CcModulo]

\* The packet in which the size field of the last pes header is, with another size
SetPesSize(m, s, size) ==
    LET at == m.enc[s].pes_at
    IN IF at = TEMP THEN [m EXCEPT !.enc[s].temp[1].pes[1].size = size]
       ELSE [m EXCEPT !.queue.packets[at].pes[1].size = size]

CurPesSize(m, s) ==
    LET at == m.enc[s].pes_at
    IN IF at = TEMP THEN m.enc[s].temp[1].pes[1].size ELSE m.queue.packets[at].pes[1].size

PesSizeField(size) == IF size > MaxPesSize THEN 0 ELSE size

\* The packet is filled with stuffing; one in temp_packet is copied to the queue.
StuffPacket(m, s) ==
    LET stuffed == [Packet(m, s) EXCEPT !.stuffing = @ + Room(m, s)]
    IN IF m.enc[s].at = NULL THEN m
       ELSE IF InTemp(m, s) THEN [Allocate(m, s, stuffed) EXCEPT !.enc[s].at = NULL]
       ELSE StoreAt(m, s, m.enc[s].at, stuffed)

\* Bug: the size of the pes is not corrected when its last packet is closed.
mpegts_encoder_stuff_cur_packet_BUG(m, s) ==
    [StuffPacket(m, s) EXCEPT !.enc[s].send_queue_offset = MAX_OFFSET]

\* What is left of the last pes in an open packet is counted in the next pes, unless
\* the packet is closed before there is one.
mpegts_encoder_stuff_cur_packet(m, s) ==
    [StuffPacket(IF m.enc[s].pes_bytes_written # 0 /\ m.conf.kinds[s] # "video"
                 THEN [SetPesSize(m, s, PesSizeField(CurPesSize(m, s) + m.enc[s].pes_bytes_written))
                         EXCEPT !.enc[s].pes_bytes_written = 0]
                 ELSE m, s)
       EXCEPT !.enc[s].send_queue_offset = MAX_OFFSET]

-----------------------------------------------------------------------------
(* Frames *)

PushPes(p, pts) == [p EXCEPT !.pes = <<[pts |-> pts, size |-> 0]>> \o @]

SetBytesLeft(m, s) == [m EXCEPT !.enc[s].packet_bytes_left = Room(m, s)]

\* The pes header is pushed in front of the end of the last frame.
StartInOpenPacket(m, s, frame) ==
    SetBytesLeft([StoreAt(m, s, m.enc[s].at, PushPes(Packet(m, s), frame.pts))
                    EXCEPT !.enc[s].pes_at = m.enc[s].at], s)

\* The current packet is full: the pes header begins a new one.
StartInNewPacket(m, s, frame) ==
    StartInOpenPacket(
      mpegts_encoder_init_packet(m, s, mpegts_get_pes_header_size(m, s) + frame.size >= Usable),
      s, frame)

AddData(m, s, bytes) ==
    StoreAt(m, s, m.enc[s].at, [Packet(m, s) EXCEPT !.data = @ \o bytes])

\* Packet p, which has the pes header, is complete.
PesPacket(m, s, p) ==
    IF InTemp(m, s) THEN [Allocate(m, s, p) EXCEPT !.enc[s].pes_at = Len(m.queue.packets) + 1]
    ELSE [StoreAt(m, s, m.enc[s].at, p) EXCEPT !.enc[s].pes_at = m.enc[s].at]

\* The pes header completes the packet, and what has no room there goes to a new packet.
StartWithExcess(m, s, frame) ==
    LET p == Packet(m, s)
        excess == Used(m, s, p) + mpegts_get_pes_header_size(m, s) - Usable
        kept == Len(p.data) - excess
        full == PesPacket(m, s, [PushPes(p, frame.pts) EXCEPT !.data = SubSeq(@, 1, kept)])
    IN IF excess > 0
       THEN SetBytesLeft(AddData(mpegts_encoder_init_packet(full, s, excess + frame.size >= Usable),
                                 s, SubSeq(p.data, kept + 1, Len(p.data))), s)
       ELSE [full EXCEPT !.enc[s].at = NULL, !.enc[s].packet_bytes_left = Usable]

StartPes(m, s, frame) ==
    LET pts == m.enc[s].last_frame_pts
        f == IF pts # NO_TIMESTAMP THEN [frame EXCEPT !.pts = pts] ELSE frame
    IN IF IsFull(m, s) THEN StartInNewPacket(m, s, frame)
       ELSE IF Room(m, s) > mpegts_get_pes_header_size(m, s) THEN StartInOpenPacket(m, s, f)
       ELSE StartWithExcess(m, s, f)

\* Without interleaving the packet of the stream that wrote last is closed.
CloseOther(m, s) ==
    IF ~m.conf.interleave /\ m.queue.last_writer \notin {s, NULL}
    THEN mpegts_encoder_stuff_cur_packet(m, m.queue.last_writer) ELSE m

\* Bug: a stream that starts a frame does not hold back its packets.
mpegts_encoder_start_frame_BUG(m, s, frame) ==
    StartPes([CloseOther(m, s) EXCEPT !.enc[s].flushed_frame_bytes = 0,
                                      !.enc[s].header_size = frame.header_size], s, frame)

mpegts_encoder_start_frame(m, s, frame) ==
    StartPes([CloseOther(m, s) EXCEPT !.enc[s].flushed_frame_bytes = 0,
                                      !.enc[s].header_size = frame.header_size,
                                      !.enc[s].send_queue_offset = m.enc[s].last_queue_offset],
             s, frame)

\* The packet is completed with the bytes; one in temp_packet is copied to the queue.
CompletePacket(m, s, bytes) ==
    [IF InTemp(m, s)
     THEN [Allocate(m, s, [Packet(m, s) EXCEPT !.data = @ \o bytes])
             EXCEPT !.enc[s].at = NULL,
                    !.enc[s].pes_at = IF @ = TEMP THEN Len(m.queue.packets) + 1 ELSE @]
     ELSE AddData(m, s, bytes)
       EXCEPT !.enc[s].flushed_frame_bytes = @ + m.enc[s].packet_bytes_left,
              !.enc[s].packet_bytes_left = Usable]

\* The packets that are full of the bytes
WholePackets(m, s, bytes, count) ==
    [FoldLeft(LAMBDA x, i : AddData(mpegts_encoder_init_packet(x, s, TRUE), s,
                                    SubSeq(bytes, (i - 1) * Usable + 1, i * Usable)),
              m, [i \in 1 .. count |-> i])
       EXCEPT !.enc[s].flushed_frame_bytes = @ + count * Usable]

Residue(m, s, bytes) ==
    IF bytes = <<>> THEN m ELSE AddData(mpegts_encoder_init_packet(m, s, FALSE), s, bytes)

\* The packet is completed, and what is left goes to new packets.
Spill(m, s, bytes, rest) ==
    LET whole == (Len(rest) \div Usable) * Usable
    IN Residue(WholePackets(CompletePacket(m, s, bytes), s, rest, whole \div Usable),
               s, SubSeq(rest, whole + 1, Len(rest)))

Fill(m, s, bytes) ==
    LET fill == Room(m, s)
    IN IF Len(bytes) < fill THEN AddData(m, s, bytes)
       ELSE Spill(m, s, SubSeq(bytes, 1, fill), SubSeq(bytes, fill + 1, Len(bytes)))

mpegts_encoder_write(m, s, bytes) ==
    Fill([IF IsFull(m, s) THEN mpegts_encoder_init_packet(m, s, Len(bytes) >= Usable) ELSE m
            EXCEPT !.enc[s].pes_bytes_written = @ + Len(bytes)], s, bytes)

\* Null packets bring the continuity counter to where the next segment begins.
StuffAll(m, s) == StoreAt(m, s, m.enc[s].at, [Packet(m, s) EXCEPT !.stuffing = Usable])

mpegts_append_null_packet(m, s) == StuffAll(mpegts_encoder_init_packet(m, s, TRUE), s)

NullPackets(m, s) ==
    FoldLeft(LAMBDA x, i : mpegts_append_null_packet(x, s), m,
             [i \in 1 .. (CcModulo - m.enc[s].cc) % CcModulo |-> i])

\* The size of the pes is known but for what left bytes of it stay in an open packet.
EndPes(m, s, left) ==
    IF m.conf.kinds[s] = "video" /\ ~m.conf.align THEN SetPesSize(m, s, 0)
    ELSE [SetPesSize(m, s, (PesSizeField(PesSizeOverhead(m, s) + m.enc[s].pes_bytes_written) - left)
                             % (MaxPesSize + 1))
            EXCEPT !.enc[s].pes_bytes_written = left]

EndFrame(m, s, stuff) ==
    IF stuff THEN mpegts_encoder_stuff_cur_packet(EndPes(m, s, 0), s)
    ELSE EndPes(m, s, Usable - Room(m, s))

EndStream(m, s) == IF m.conf.kinds[s] # "id3" THEN NullPackets(m, s) ELSE m

MustStuff(m, s) == \/ m.conf.align \/ IsFull(m, s)
                   \/ m.enc[s].flushed_frame_bytes < m.enc[s].header_size

mpegts_encoder_flush_frame(m, s, last_stream_frame) ==
    IF last_stream_frame THEN EndStream(EndFrame(m, s, TRUE), s)
    ELSE EndFrame(m, s, MustStuff(m, s))

\* Bug: the last frame that begins in a packet gives it its time.
mpegts_encoder_start_sub_frame_BUG(m, s, frame) ==
    [IF IsFull(m, s) THEN mpegts_encoder_init_packet(m, s, frame.size >= Usable) ELSE m
       EXCEPT !.enc[s].last_frame_pts = frame.pts]

\* Another frame of the same pes begins; the pts of the first one that begins in a
\* packet is kept for a pes header that is pushed into it.
mpegts_encoder_start_sub_frame(m, s, frame) ==
    IF IsFull(m, s)
    THEN [mpegts_encoder_init_packet(m, s, frame.size >= Usable)
            EXCEPT !.enc[s].last_frame_pts = frame.pts]
    ELSE IF m.enc[s].last_frame_pts = NO_TIMESTAMP
    THEN [m EXCEPT !.enc[s].last_frame_pts = frame.pts]
    ELSE m

-----------------------------------------------------------------------------
(* The simulation counts packets and keeps where the last two frames were. *)

mpegts_encoder_simulated_start_segment(m) ==
    [m EXCEPT !.queue.cur_offset = HeaderPackets, !.queue.base = HeaderPackets,
              !.queue.last_writer = NULL]

\* count packets of stream s are complete.
SimPackets(m, s, count) ==
    [m EXCEPT !.queue.cur_offset = @ + count, !.queue.last_writer = s,
              !.enc[s].cc = (@ + count) % CcModulo]

OrElse(pos, other) == IF pos = NOT_SET THEN other ELSE pos

FrameEnds(m, s) ==
    [m EXCEPT !.enc[s].last_frame_end_pos = OrElse(@, m.queue.cur_offset),
              !.enc[s].cur_frame_end_pos = m.queue.cur_offset]

mpegts_encoder_simulated_stuff_cur_packet(m, s) ==
    FrameEnds([IF m.enc[s].temp_packet_size > 0
               THEN [SimPackets(m, s, 1) EXCEPT !.enc[s].temp_packet_size = 0] ELSE m
                 EXCEPT !.enc[s].cur_frame_start_pos = OrElse(@, m.queue.cur_offset)], s)

\* The pes header of a frame, which may complete a packet
SimPes(m, s, frame, size) ==
    [IF size < Usable THEN m
     ELSE [SimPackets(m, s, 1) EXCEPT
             !.enc[s].cur_frame_start_pos = m.queue.cur_offset,
             !.enc[s].last_frame_end_pos = IF size = Usable THEN m.queue.cur_offset + 1 ELSE @]
       EXCEPT !.enc[s].flushed_frame_bytes = 0, !.enc[s].header_size = frame.header_size,
              !.enc[s].temp_packet_size = size % Usable,
              !.enc[s].packet_bytes_left = Usable - (size % Usable)]

SimStart(m, s, frame) ==
    SimPes([m EXCEPT !.enc[s].last_frame_start_pos = m.enc[s].cur_frame_start_pos,
                     !.enc[s].last_frame_end_pos = m.enc[s].cur_frame_end_pos,
                     !.enc[s].cur_frame_start_pos = NOT_SET,
                     !.enc[s].cur_frame_end_pos = NOT_SET], s, frame,
           m.enc[s].temp_packet_size + mpegts_get_pes_header_size(m, s))

\* Bug: the packet of the other stream is not counted.
mpegts_encoder_simulated_start_frame_BUG(m, s, frame) == SimStart(m, s, frame)

mpegts_encoder_simulated_start_frame(m, s, frame) ==
    LET w == m.queue.last_writer
    IN SimStart(IF /\ ~m.conf.interleave /\ w \notin {s, NULL}
                   /\ m.enc[w].temp_packet_size > 0
                THEN mpegts_encoder_simulated_stuff_cur_packet(m, w) ELSE m, s, frame)

\* Bug: the packet in which the last frame ends is not part of its range.
mpegts_encoder_simulated_write_BUG(m, s, size) ==
    LET total == size + m.enc[s].temp_packet_size
        count == total \div Usable
        n == [m EXCEPT !.enc[s].temp_packet_size = total % Usable]
    IN IF count = 0 THEN n
       ELSE [SimPackets(n, s, count) EXCEPT
               !.enc[s].flushed_frame_bytes =
                  @ + m.enc[s].packet_bytes_left + (count - 1) * Usable,
               !.enc[s].packet_bytes_left = Usable,
               !.enc[s].cur_frame_start_pos = OrElse(@, m.queue.cur_offset),
               !.enc[s].last_frame_end_pos = OrElse(@, m.queue.cur_offset)]

mpegts_encoder_simulated_write(m, s, size) ==
    LET total == size + m.enc[s].temp_packet_size
        count == total \div Usable
        n == [m EXCEPT !.enc[s].temp_packet_size = total % Usable]
    IN IF count = 0 THEN n
       ELSE [SimPackets(n, s, count) EXCEPT
               !.enc[s].flushed_frame_bytes =
                  @ + m.enc[s].packet_bytes_left + (count - 1) * Usable,
               !.enc[s].packet_bytes_left = Usable,
               !.enc[s].cur_frame_start_pos = OrElse(@, m.queue.cur_offset),
               !.enc[s].last_frame_end_pos = OrElse(@, m.queue.cur_offset + 1)]

SimNulls(m, s) ==
    IF m.conf.kinds[s] # "id3" /\ m.enc[s].cc # 0 THEN SimPackets(m, s, CcModulo - m.enc[s].cc) ELSE m

mpegts_encoder_simulated_flush_frame(m, s, last_stream_frame) ==
    IF last_stream_frame
    THEN [SimNulls(mpegts_encoder_simulated_stuff_cur_packet(m, s), s)
            EXCEPT !.enc[s].cc = m.enc[s].initial_cc]
    ELSE IF \/ m.conf.align \/ m.enc[s].temp_packet_size = 0
            \/ m.enc[s].flushed_frame_bytes < m.enc[s].header_size
    THEN mpegts_encoder_simulated_stuff_cur_packet(m, s)
    ELSE m
=============================================================================
