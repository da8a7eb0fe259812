----------------------------- MODULE CbcsEncrypt -----------------------------
(***************************************************************************)
(* mp4_cbcs_encrypt.c: the writers of a muxed segment, one per track, that *)
(* share a write buffer and a cipher.  cbcs.track is the track the bytes   *)
(* of cbcs.input belong to; a step is one round of the loop of its writer. *)
(* The muxer that feeds the writers changes tracks between frames only.    *)
(***************************************************************************)
EXTENDS CencDecrypt

CONSTANTS
    MaxSliceHeader,     \* MAX_SLICE_HEADER_SIZE
    BlockPeriod         \* ENCRYPTED_BLOCK_PERIOD

ASSUME CbcsAssumption == {MaxSliceHeader, BlockPeriod} \subseteq Nat \ {0}

VARIABLE cbcs

MinEncryptedPacket == 1 + BlockSize

S(w) == w.streams[w.track]
TrackClips(w) == job.tracks[w.track].clips
With(w, stream) == [w EXCEPT !.streams[w.track] = stream]

mp4_cbcs_encrypt_write_encrypted(w, bytes) ==
    LET f == write_buffer_get_bytes(w, RoundUp(Len(bytes)))
        u == EVP_EncryptUpdate(f.cipher, bytes)
    IN IF f.rc # "OK" THEN f ELSE [Put(f, u.out) EXCEPT !.cipher = u.cipher]

\* A plausible mistake: the first track that ends empties the buffer for good
mp4_cbcs_encrypt_flush_BUG(w) ==
    IF w.flush_left = 1 THEN [w EXCEPT !.flush_left = 0] ELSE write_buffer_flush([w EXCEPT !.flush_left = @ - 1], FALSE)

\* The last track to end writes what is left
mp4_cbcs_encrypt_flush(w) ==
    IF w.flush_left > 1 THEN [w EXCEPT !.flush_left = @ - 1]
    ELSE write_buffer_flush([w EXCEPT !.flush_left = 0], FALSE)

-----------------------------------------------------------------------------
(* Frames *)

FramesOf(clips, c) == clips[c].frames

\* The frames that are left, as <<clip, frame>>, without those of size 0
FramesLeft(clips, s) ==
    {<<c, f>> \in {<<c, f>> \in (DOMAIN clips) \X (1 .. Max({Len(FramesOf(clips, c)) : c \in DOMAIN clips})) :
                     f \in DOMAIN FramesOf(clips, c)} :
        /\ c > s.clip \/ (c = s.clip /\ f >= s.frame)
        /\ FramesOf(clips, c)[f].size > 0}

mp4_cbcs_encrypt_video_init_track(w) ==
    LET clip == TrackClips(w)[S(w).clip]
        length == clip.nal_length
    IN IF length \notin 1 .. 4 THEN Fail(w, "BAD_DATA")
       ELSE With(w, [S(w) EXCEPT !.nal_length = length, !.cur_state = "packet_size",
                                 !.min_packet_size = length + clip.nal_header,
                                 !.length_bytes_left = length, !.packet_size_left = 0,
                                 !.next_block_size_left = 0])

\* A plausible mistake: a frame without data is not passed over
mp4_cbcs_encrypt_move_to_next_frame_BUG(clips, s) ==
    LET later == {c \in DOMAIN clips : c > s.clip /\ clips[c].frames # <<>>}
    IN IF s.frame \in DOMAIN clips[s.clip].frames THEN s
       ELSE IF later = {} THEN [s EXCEPT !.clip = Len(clips) + 1]
       ELSE [s EXCEPT !.clip = Min(later), !.frame = 1, !.frame_size_left = 0]

\* The clip after the last one stands for the FALSE that is returned
mp4_cbcs_encrypt_move_to_next_frame(clips, s) ==
    LET left == FramesLeft(clips, s)
        next == CHOOSE x \in left : \A y \in left : x[1] < y[1] \/ (x[1] = y[1] /\ x[2] <= y[2])
    IN IF left = {} THEN [s EXCEPT !.clip = Len(clips) + 1]
       ELSE [s EXCEPT !.clip = next[1], !.frame = next[2],
                      !.frame_size_left = IF next[1] = s.clip THEN @ ELSE 0]

mp4_cbcs_encrypt_start_frame(w) ==
    LET s == S(w) IN
    IF s.clip \notin DOMAIN TrackClips(w) \/ s.frame \notin DOMAIN TrackClips(w)[s.clip].frames
    THEN Fail(w, "BAD_DATA")
    ELSE With(w, [s EXCEPT !.frame_size_left = TrackClips(w)[s.clip].frames[s.frame].size,
                           !.frame = @ + 1])

GoTo(w, s) ==
    IF s.clip > Len(TrackClips(w)) THEN mp4_cbcs_encrypt_flush(With([w EXCEPT !.input = <<>>], s))
    ELSE IF s.clip # S(w).clip /\ job.tracks[w.track].kind = "video"
    THEN mp4_cbcs_encrypt_video_init_track(With(w, s))
    ELSE With(w, s)

\* After a frame: the next one and maybe its track, or the end
AfterFrame(w) == GoTo(w, mp4_cbcs_encrypt_move_to_next_frame(TrackClips(w), S(w)))

-----------------------------------------------------------------------------
(* mp4_cbcs_encrypt_video_write_buffer *)

CbcsWriting(kind) ==
    /\ cbcs.rc = "OK" /\ cbcs.input # <<>>
    /\ job.tracks[cbcs.track].kind = kind

CbcsVideo(state) == CbcsWriting("video") /\ S(cbcs).cur_state \in state

BadCbcsPacket(s) ==
    LET left == s.frame_size_left - s.nal_length - s.packet_size_left
    IN s.packet_size_left = 0 \/ left < 0 \/ left \in 1 .. s.min_packet_size - 1

CbcsPacketSize ==
    /\ CbcsVideo({"packet_size"})
    /\ cbcs' =
         LET w == IF S(cbcs).frame_size_left = 0 THEN mp4_cbcs_encrypt_start_frame(cbcs) ELSE cbcs
             n == Min({S(w).length_bytes_left, Len(w.input)})
             s == [S(w) EXCEPT
                     !.length_bytes_left = @ - n,
                     !.packet_size_left =
                        FoldLeft(LAMBDA a, x : a * DigitBase + x.b, @, First(w.input, n))]
             r == With([w EXCEPT !.input = After(@, n)], s)
         IN IF w.rc # "OK" THEN w
            ELSE IF S(w).frame_size_left < s.min_packet_size /\ S(cbcs).frame_size_left = 0
            THEN Fail(w, "BAD_DATA")
            ELSE IF s.length_bytes_left > 0 THEN r
            ELSE IF BadCbcsPacket(s) THEN Fail(r, "BAD_DATA")
            ELSE With(r, [s EXCEPT !.frame_size_left = @ - s.nal_length - s.packet_size_left,
                                   !.cur_state = "nal_type"])

CbcsNalType ==
    /\ CbcsVideo({"nal_type"})
    /\ cbcs' =
         LET s == S(cbcs)
             type == Head(cbcs.input)
             w == Put(write_buffer_get_bytes(cbcs, s.nal_length + 1),
                      Append(SizeDigits(s.packet_size_left, s.nal_length), type))
             left == s.packet_size_left - 1
         IN With([w EXCEPT !.input = Tail(@)],
                 IF ~ IsSlice(type) \/ left < MinEncryptedPacket
                 THEN [s EXCEPT !.packet_size_left = left, !.cur_state = "copy"]
                 ELSE [s EXCEPT !.packet_size_left = left, !.cur_state = "slice_header",
                                !.slice_header = <<type>>,
                                !.slice_header_end = Min({MaxSliceHeader, left + 1})])

EndPacket(s) ==
    [s EXCEPT !.cur_state = "packet_size", !.length_bytes_left = s.nal_length, !.packet_size_left = 0]

\* After a block: where the next encrypted one starts, counted from the end
\* of the packet
NextBlock(s) ==
    [s EXCEPT !.next_block_size_left =
        IF @ >= (BlockPeriod + 1) * BlockSize THEN @ - BlockPeriod * BlockSize ELSE 0]

\* n bytes of the packet were written
Copied(w, s, n) ==
    IF s.packet_size_left > n THEN With(w, [s EXCEPT !.packet_size_left = @ - n])
    ELSE IF s.frame_size_left > 0 THEN With(w, EndPacket(s))
    ELSE AfterFrame(With(w, EndPacket(s)))

Copy(w, s, n) ==
    Copied([write_buffer_write(w, First(w.input, n)) EXCEPT !.input = After(@, n)], s, n)

\* case STATE_PACKET_COPY
CopyPacket(w) ==
    Copy(w, S(w), Min({S(w).packet_size_left - S(w).next_block_size_left, Len(w.input)}))

\* A plausible mistake: the next block is looked for although this one is
\* still incomplete
EncryptPacket_BUG(w) ==
    LET s == S(w)
        rest == s.packet_size_left - (s.next_block_size_left - BlockSize)
        n == Min({rest, Len(w.input)})
        f == [mp4_cbcs_encrypt_write_encrypted(w, First(w.input, n)) EXCEPT !.input = After(@, n)]
        p == [s EXCEPT !.packet_size_left = @ - n]
    IN IF ~ (s.packet_size_left \in 1 .. s.next_block_size_left) THEN CopyPacket(w)
       ELSE CopyPacket(With(f, NextBlock(p)))

\* case STATE_PACKET_ENCRYPT, which falls through to the copy
EncryptPacket(w) ==
    LET s == S(w)
        rest == s.packet_size_left - (s.next_block_size_left - BlockSize)
        n == Min({rest, Len(w.input)})
        p == [s EXCEPT !.packet_size_left = @ - n]
        f == [mp4_cbcs_encrypt_write_encrypted(w, First(w.input, n)) EXCEPT !.input = After(@, n)]
    IN IF s.packet_size_left \notin 1 .. s.next_block_size_left THEN CopyPacket(w)
       ELSE IF n < rest THEN With(f, p)
       ELSE CopyPacket(With(f, NextBlock(p)))

\* avc_parser_get_slice_header_size, with the nal unit's type
get_slice_header_size(header) == 1 + (header[1].b % 10)

\* The header is complete: what is in the buffer is written, its first block
\* encrypted, even if a part of that block is still to come
WriteSlice(w) ==
    LET s == S(w)
        all == s.slice_header
        size == get_slice_header_size(all)
        head == SubSeq(all, 2, size)
        data == After(all, size)
        n == Min({BlockSize, Len(data)})
        left == s.packet_size_left - (Len(all) - 1)
        e == mp4_cbcs_encrypt_write_encrypted(EVP_EncryptInit(write_buffer_write(w, head)),
                                              First(data, n))
        p == [s EXCEPT !.next_block_size_left = s.packet_size_left - (size - 1),
                       !.packet_size_left = left, !.cur_state = "encrypt"]
    IN IF s.packet_size_left - (size - 1) < BlockSize
       THEN With(write_buffer_write(w, Tail(all)),
                 [s EXCEPT !.packet_size_left = left, !.cur_state = "copy"])
       ELSE IF n < BlockSize THEN EncryptPacket(With(e, p))
       ELSE EncryptPacket(With(write_buffer_write(e, After(data, BlockSize)), NextBlock(p)))

CbcsSliceHeader ==
    /\ CbcsVideo({"slice_header"})
    /\ cbcs' =
         LET s == S(cbcs)
             n == Min({s.slice_header_end - Len(s.slice_header), Len(cbcs.input)})
             w == With([cbcs EXCEPT !.input = After(@, n)],
                       [s EXCEPT !.slice_header = @ \o First(cbcs.input, n)])
         IN IF Len(S(w).slice_header) < s.slice_header_end THEN w ELSE WriteSlice(w)

CbcsData ==
    /\ CbcsVideo({"encrypt", "copy"})
    /\ cbcs' = IF S(cbcs).cur_state = "encrypt" THEN EncryptPacket(cbcs) ELSE CopyPacket(cbcs)

-----------------------------------------------------------------------------
(* mp4_cbcs_encrypt_audio_write_buffer *)

AudioStart(w) ==
    LET f == mp4_cbcs_encrypt_start_frame(w)
        g == EVP_EncryptInit(With(f, [S(f) EXCEPT !.clear_trailer_size = S(f).frame_size_left % BlockSize]))
    IN IF S(w).frame_size_left > 0 THEN w ELSE IF f.rc # "OK" THEN f ELSE g

AudioBlocks(w) ==
    LET s == S(w)
        n == Min({s.frame_size_left - s.clear_trailer_size, Len(w.input)})
    IN IF s.frame_size_left <= s.clear_trailer_size THEN w
       ELSE With([mp4_cbcs_encrypt_write_encrypted(w, First(w.input, n)) EXCEPT !.input = After(@, n)],
                 [s EXCEPT !.frame_size_left = @ - n])

AudioTrailer(w) ==
    LET s == S(w)
        n == Min({s.frame_size_left, Len(w.input)})
    IN IF s.frame_size_left > s.clear_trailer_size THEN w
       ELSE With([write_buffer_write(w, First(w.input, n)) EXCEPT !.input = After(@, n)],
                 [s EXCEPT !.frame_size_left = @ - n])

CbcsAudio ==
    /\ CbcsWriting("audio")
    /\ cbcs' = LET w == AudioStart(cbcs)
                   f == AudioTrailer(AudioBlocks(w))
               IN IF w.rc # "OK" THEN w
                  ELSE IF S(f).frame_size_left > 0 THEN f
                  ELSE AfterFrame(f)

-----------------------------------------------------------------------------

NewStream(t) ==
    mp4_cbcs_encrypt_move_to_next_frame(job.tracks[t].clips,
        [clip |-> 1, frame |-> 1, frame_size_left |-> 0, clear_trailer_size |-> 0,
         cur_state |-> "packet_size", nal_length |-> 0, min_packet_size |-> 0, length_bytes_left |-> 0,
         packet_size_left |-> 0, next_block_size_left |-> 0,
         slice_header |-> <<>>, slice_header_end |-> 0])

\* A plausible mistake: tracks without frames are waited for
GetFragmentWriter_BUG(w, t) ==
    LET video == job.tracks[t].kind = "video"
        n == [w EXCEPT !.track = t, !.flush_left = @ + 1]
    IN IF w.rc # "OK" THEN w
       ELSE IF video /\ ~ job.tracks[t].clips[1].supported THEN Fail(w, "BAD_REQUEST")
       ELSE IF ~ video \/ S(n).clip > Len(job.tracks[t].clips) THEN n
       ELSE mp4_cbcs_encrypt_video_init_track(n)

\* mp4_cbcs_encrypt_video_get_fragment_writer or the one of audio; a track
\* without frames is not counted
GetFragmentWriter(w, t) ==
    LET video == job.tracks[t].kind = "video"
        n == [w EXCEPT !.track = t]
    IN IF w.rc # "OK" THEN w
       ELSE IF video /\ ~ job.tracks[t].clips[1].supported THEN Fail(w, "BAD_REQUEST")
       ELSE IF S(n).clip > Len(job.tracks[t].clips) THEN w
       ELSE [(IF video THEN mp4_cbcs_encrypt_video_init_track(n) ELSE n) EXCEPT !.flush_left = @ + 1]

mp4_cbcs_encrypt_get_writers ==
    FoldLeft(GetFragmentWriter,
        [input |-> <<>>, track |-> 1, buf |-> <<>>, size |-> 0, tail |-> <<>>, rc |-> "OK",
         cipher |-> [key |-> job.key, link |-> job.iv, kept |-> <<>>], iv |-> job.iv,
         flush_left |-> 0, streams |-> [t \in DOMAIN job.tracks |-> NewStream(t)]],
        [t \in DOMAIN job.tracks |-> t])

CbcsStep == CbcsPacketSize \/ CbcsNalType \/ CbcsSliceHeader \/ CbcsData \/ CbcsAudio

=============================================================================
