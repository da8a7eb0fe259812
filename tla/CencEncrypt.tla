----------------------------- MODULE CencEncrypt -----------------------------
(***************************************************************************)
(* mp4_cenc_encrypt.c: the writers between the frames of a fragment and    *)
(* the client.  enc.input is what is left of the buffer write_buffer was   *)
(* called with; a step is one round of its loop.  The video writer learns  *)
(* the subsamples while it writes, so its header comes after the data; the *)
(* writer for a single nal unit per frame, and the one of audio, know the  *)
(* auxiliary data from the sizes of the frames.                            *)
(***************************************************************************)
EXTENDS FragmentHeaders

CONSTANTS
    IvModulo,       \* 2^64
    MaxFrameRate,   \* MAX_FRAME_RATE
    DigitBase       \* 2^8, a byte of a nal unit's size

ASSUME CencAssumption == {IvModulo, MaxFrameRate, DigitBase} \subseteq Nat \ {0}

VARIABLE enc

Clips == job.tracks[1].clips

\* How the nal unit types are told apart: the last digit of the type byte is
\* 0 when the unit is not a slice, and else the size of its slice header
IsSlice(byte) == byte.b % 10 # 0

-----------------------------------------------------------------------------
(* Frames *)

\* A plausible mistake: the iv does not depend on the clip
FirstIv_BUG(frame_index, clip_start_time) == (job.iv + frame_index) % IvModulo

\* The iv of a fragment's first frame, by its index in its file and the start
\* of its clip in milliseconds
FirstIv(frame_index, clip_start_time) ==
    (job.iv + frame_index + ((clip_start_time * MaxFrameRate) \div 1000)) % IvModulo

mp4_cenc_encrypt_init_state ==
    [input |-> <<>>, buf |-> <<>>, size |-> 0, tail |-> <<>>, rc |-> "OK",
     cipher |-> mp4_aes_ctr_init(job.key),
     iv |-> FirstIv(Clips[1].first_frame_index, Clips[1].clip_start_time),
     clip |-> 1, frame |-> 1, frame_size_left |-> 0,
     cur_state |-> "packet_size", nal_length |-> Clips[1].nal_length,
     length_bytes_left |-> Clips[1].nal_length, packet_size_left |-> 0,
     aux |-> <<>>, sizes |-> <<>>, subsample_count |-> 0, head |-> NoHeader]

HasFrame(e) == e.clip \in DOMAIN Clips /\ e.frame \in DOMAIN Clips[e.clip].frames

\* The clip after the last one stands for the FALSE that is returned
mp4_cenc_encrypt_move_to_next_frame(e) ==
    LET later == {c \in DOMAIN Clips : c > e.clip /\ Clips[c].frames # <<>>}
    IN IF HasFrame(e) THEN e
       ELSE [e EXCEPT !.clip = IF later = {} THEN Len(Clips) + 1 ELSE Min(later),
                      !.frame = 1,
                      !.frame_size_left = 0]

mp4_cenc_encrypt_start_frame(e) ==
    IF ~ HasFrame(e) THEN Fail(e, "BAD_DATA")
    ELSE [e EXCEPT !.frame_size_left = Clips[e.clip].frames[e.frame].size,
                   !.frame = @ + 1,
                   !.cipher = mp4_aes_ctr_set_iv(@, e.iv),
                   !.iv = (@ + 1) % IvModulo]

mp4_cenc_encrypt_video_init_track(e) ==
    LET clip == Clips[e.clip]
    IN IF ~ clip.supported THEN Fail(e, "BAD_REQUEST")
       ELSE IF clip.nal_length \notin 1 .. 4 THEN Fail(e, "BAD_DATA")
       ELSE [e EXCEPT !.nal_length = clip.nal_length,
                      !.cur_state = "packet_size",
                      !.length_bytes_left = clip.nal_length,
                      !.packet_size_left = 0]

\* A plausible mistake: the next clip's track is not initialized
FinishFrame_BUG(e) == mp4_cenc_encrypt_move_to_next_frame(e)

\* To the next frame, and the track it may start
FinishFrame(e) ==
    LET f == mp4_cenc_encrypt_move_to_next_frame(e)
    IN IF HasFrame(f) /\ f.clip # e.clip THEN mp4_cenc_encrypt_video_init_track(f) ELSE f

-----------------------------------------------------------------------------
(* The auxiliary data of video *)

mp4_cenc_encrypt_video_start_frame(e) ==
    mp4_cenc_encrypt_start_frame(
        [e EXCEPT !.aux = @ \o <<Iv(e.iv), Count(0)>>, !.subsample_count = 0])

mp4_cenc_encrypt_video_add_subsample(e, clear, encrypted) ==
    [e EXCEPT !.aux = Append(@, Subsample(clear % 65536, encrypted)), !.subsample_count = @ + 1]

mp4_cenc_encrypt_video_end_frame(e) ==
    [e EXCEPT !.sizes = Append(@, (ItemSize.iv + ItemSize.count
                                   + e.subsample_count * ItemSize.sub) % 256),
              !.aux[Len(e.aux) - e.subsample_count] = Count(e.subsample_count)]

\* A plausible mistake: only the neighbours of the first size are compared
mp4_cenc_encrypt_video_calc_default_auxiliary_sample_size_BUG(e) ==
    IF Len(e.sizes) > 1 /\ e.sizes[1] = e.sizes[2] THEN e.sizes[1] ELSE 0

mp4_cenc_encrypt_video_calc_default_auxiliary_sample_size(e) ==
    IF e.sizes # <<>> /\ \A f \in DOMAIN e.sizes : e.sizes[f] = e.sizes[1]
    THEN e.sizes[1] ELSE 0

\* A plausible mistake: the sizes of the samples are not counted
mp4_cenc_encrypt_video_prepare_saiz_saio_BUG(e) ==
    LET default == mp4_cenc_encrypt_video_calc_default_auxiliary_sample_size(e)
    IN AuxInfo(e.aux, default, Len(e.sizes),
               IF default = 0 THEN e.sizes ELSE <<>>, Room(Sizeof.saiz), TRUE)

mp4_cenc_encrypt_video_prepare_saiz_saio(e) ==
    LET default == mp4_cenc_encrypt_video_calc_default_auxiliary_sample_size(e)
    IN AuxInfo(e.aux, default, Len(e.sizes),
               IF default = 0 THEN e.sizes ELSE <<>>,
               Room(Sizeof.saiz) + (IF default = 0 THEN Len(e.sizes) ELSE 0),
               TRUE)

\* Without a frame the header is written at once, with empty lists
EmptyInfo == AuxInfo(<<>>, 0, 0, <<>>, Room(Sizeof.saiz), TRUE)

\* One subsample per frame: its first bytes clear and the rest encrypted
SnpfFrameAux(c, f, iv) ==
    LET clear == Clips[c].nal_length + 1
        size == Clips[c].frames[f].size
    IN IF size > 0 THEN <<Iv(iv), Count(1), Subsample(clear, size - clear)>>
       ELSE <<Iv(iv), Count(0)>>

FramesBefore(c) == Len(AllFrames(SubSeq(Clips, 1, c - 1)))

mp4_cenc_encrypt_video_snpf_build_auxiliary_data(e) ==
    AuxInfo(FlattenSeq([c \in DOMAIN Clips |->
              FlattenSeq([f \in DOMAIN Clips[c].frames |->
                SnpfFrameAux(c, f, (e.iv + FramesBefore(c) + f - 1) % IvModulo)])]),
            ItemSize.iv + ItemSize.count + ItemSize.sub, total_frame_count, <<>>,
            Room(Sizeof.saiz), TRUE)

mp4_cenc_encrypt_audio_write_auxiliary_data(e) ==
    [f \in 1 .. total_frame_count |-> Iv((e.iv + f - 1) % IvModulo)]

\* A plausible mistake: the count of the frames is stated as the first clip's
mp4_cenc_encrypt_audio_info_BUG(e) ==
    AuxInfo(mp4_cenc_encrypt_audio_write_auxiliary_data(e), ItemSize.iv, Len(Clips[1].frames), <<>>,
            Room(Sizeof.saiz), FALSE)

\* mp4_cenc_encrypt_audio_write_saiz_saio
mp4_cenc_encrypt_audio_info(e) ==
    AuxInfo(mp4_cenc_encrypt_audio_write_auxiliary_data(e), ItemSize.iv, total_frame_count, <<>>,
            Room(Sizeof.saiz), FALSE)

-----------------------------------------------------------------------------
(* mp4_cenc_encrypt_video_write_buffer *)

Encrypting(kind) == enc.rc = "OK" /\ enc.input # <<>> /\ job.writer = kind

\* The bytes of a size that are in the buffer
ReadSize(e) ==
    LET n == Min({e.length_bytes_left, Len(e.input)})
    IN [e EXCEPT !.length_bytes_left = @ - n,
                 !.input = After(@, n),
                 !.packet_size_left =
                    FoldLeft(LAMBDA a, x : a * DigitBase + x.b, @, First(e.input, n))]

\* The packet ends in the buffer, and with it maybe the frame and the fragment
FinishPacket(e) ==
    LET p == [e EXCEPT !.cur_state = "packet_size", !.length_bytes_left = e.nal_length,
                       !.packet_size_left = 0]
        f == FinishFrame(mp4_cenc_encrypt_video_end_frame(p))
        g == write_buffer_flush(f, FALSE)
    IN IF p.frame_size_left > 0 THEN p
       ELSE IF f.clip \in DOMAIN Clips THEN f
       ELSE [g EXCEPT !.head = BuildFragmentHeader(mp4_cenc_encrypt_video_prepare_saiz_saio(g))]

VideoBody(e) ==
    LET n == Min({Len(e.input), e.packet_size_left})
        w == IF e.cur_state = "encrypt" THEN mp4_aes_ctr_write_encrypted(e, First(e.input, n))
             ELSE write_buffer_write(e, First(e.input, n))
        f == [w EXCEPT !.input = After(@, n), !.packet_size_left = @ - n]
    IN IF f.packet_size_left > 0 THEN f ELSE FinishPacket(f)

VideoStartFrame ==
    /\ Encrypting("video")
    /\ enc.cur_state = "packet_size" /\ enc.frame_size_left = 0
    /\ enc' = LET e == mp4_cenc_encrypt_video_start_frame(enc)
              IN IF e.frame_size_left = 0 THEN [e EXCEPT !.cur_state = "encrypt"]
                 ELSE IF e.frame_size_left <= e.nal_length THEN Fail(e, "BAD_DATA")
                 ELSE e

\* The size of a packet that cannot be right
BadPacket(e) ==
    LET left == e.frame_size_left - e.nal_length - e.packet_size_left
    IN e.packet_size_left = 0 \/ left < 0 \/ left \in 1 .. e.nal_length

VideoPacketSize ==
    /\ Encrypting("video")
    /\ enc.cur_state = "packet_size" /\ enc.frame_size_left > 0
    /\ enc' = LET e == ReadSize(enc)
              IN IF e.input = <<>> THEN e
                 ELSE IF BadPacket(e) THEN Fail(e, "BAD_DATA")
                 ELSE [e EXCEPT !.frame_size_left = @ - e.nal_length - e.packet_size_left,
                                !.cur_state = "nal_type"]

\* The digits of a size, written anew
SizeDigits(size, length) ==
    [i \in 1 .. length |-> Clear((size \div DigitBase ^ (length - i)) % DigitBase)]

\* A plausible mistake: the subsample leaves out the nal unit's type
VideoNalType_BUG ==
    /\ Encrypting("video")
    /\ enc.cur_state = "nal_type"
    /\ enc' = LET type == Head(enc.input)
                  w == Put(write_buffer_get_bytes(enc, enc.nal_length + 1),
                           Append(SizeDigits(enc.packet_size_left, enc.nal_length), type))
                  e == [w EXCEPT !.input = Tail(@),
                                 !.packet_size_left = @ - 1,
                                 !.cur_state = IF IsSlice(type) THEN "encrypt" ELSE "copy"]
              IN VideoBody(mp4_cenc_encrypt_video_add_subsample(e,
                   e.nal_length + (IF IsSlice(type) THEN 0 ELSE e.packet_size_left),
                   IF IsSlice(type) THEN e.packet_size_left ELSE 0))

\* The rest of the round is entered even when the buffer ends with the type
VideoNalType ==
    /\ Encrypting("video")
    /\ enc.cur_state = "nal_type"
    /\ enc' = LET type == Head(enc.input)
                  w == Put(write_buffer_get_bytes(enc, enc.nal_length + 1),
                           Append(SizeDigits(enc.packet_size_left, enc.nal_length), type))
                  e == [w EXCEPT !.input = Tail(@),
                                 !.packet_size_left = @ - 1,
                                 !.cur_state = IF IsSlice(type) THEN "encrypt" ELSE "copy"]
                  clear == e.nal_length + 1
              IN VideoBody(IF IsSlice(type)
                 THEN mp4_cenc_encrypt_video_add_subsample(e, clear, e.packet_size_left)
                 ELSE mp4_cenc_encrypt_video_add_subsample(e, clear + e.packet_size_left, 0))

VideoData ==
    /\ Encrypting("video")
    /\ enc.cur_state \in {"encrypt", "copy"}
    /\ enc' = VideoBody(enc)

-----------------------------------------------------------------------------
(* mp4_cenc_encrypt_video_snpf_write_buffer *)

SnpfStartFrame ==
    /\ Encrypting("snpf")
    /\ enc.cur_state = "packet_size" /\ enc.frame_size_left = 0
    /\ enc' = LET e == mp4_cenc_encrypt_start_frame(enc)
              IN IF e.frame_size_left = 0 THEN [e EXCEPT !.cur_state = "encrypt"]
                 ELSE IF e.frame_size_left <= e.nal_length THEN Fail(e, "BAD_DATA")
                 ELSE e

SnpfBody(e) ==
    LET n == Min({Len(e.input), e.frame_size_left})
        f == [mp4_aes_ctr_write_encrypted(e, First(e.input, n)) EXCEPT
                !.input = After(@, n), !.frame_size_left = @ - n]
        g == FinishFrame([f EXCEPT !.cur_state = "packet_size",
                                   !.length_bytes_left = f.nal_length, !.packet_size_left = 0])
    IN IF f.frame_size_left > 0 THEN f
       ELSE IF g.clip \in DOMAIN Clips THEN g
       ELSE write_buffer_flush([g EXCEPT !.input = <<>>], FALSE)

\* The size, as far as it is there, and the type
SnpfClear ==
    /\ Encrypting("snpf")
    /\ enc.cur_state = "packet_size" /\ enc.frame_size_left > 0
    /\ enc' = LET n == Min({Len(enc.input), enc.length_bytes_left})
                  w == write_buffer_get_bytes(enc, Min({Len(enc.input), enc.length_bytes_left + 1}))
                  e == ReadSize(Put(w, First(enc.input, n)))
              IN IF e.input = <<>> THEN e
                 ELSE SnpfBody([Put(e, <<Head(e.input)>>) EXCEPT
                        !.input = Tail(@),
                        !.frame_size_left = @ - e.nal_length - 1,
                        !.cur_state = "encrypt"])

SnpfEncrypt ==
    /\ Encrypting("snpf")
    /\ enc.cur_state = "encrypt"
    /\ enc' = SnpfBody(enc)

-----------------------------------------------------------------------------
(* mp4_cenc_encrypt_audio_write_buffer *)

\* A plausible mistake: the frame goes on with the iv of the one before when
\* a buffer starts with it
AudioWrite_BUG ==
    /\ Encrypting("audio")
    /\ enc' = LET s == mp4_cenc_encrypt_start_frame(enc)
                  e == IF enc.frame_size_left > 0 THEN enc
                       ELSE IF Len(enc.input) = 1 THEN [s EXCEPT !.cipher = enc.cipher] ELSE s
                  n == Min({Len(e.input), e.frame_size_left})
                  f == [mp4_aes_ctr_write_encrypted(e, First(e.input, n)) EXCEPT
                          !.input = After(@, n), !.frame_size_left = @ - n]
                  g == mp4_cenc_encrypt_move_to_next_frame(f)
              IN IF e.rc # "OK" \/ f.frame_size_left > 0 THEN f
                 ELSE IF g.clip \in DOMAIN Clips THEN g
                 ELSE write_buffer_flush(g, FALSE)

AudioWrite ==
    /\ Encrypting("audio")
    /\ enc' = LET e == IF enc.frame_size_left > 0 THEN enc ELSE mp4_cenc_encrypt_start_frame(enc)
                  n == Min({Len(e.input), e.frame_size_left})
                  f == [mp4_aes_ctr_write_encrypted(e, First(e.input, n)) EXCEPT
                          !.input = After(@, n), !.frame_size_left = @ - n]
                  g == mp4_cenc_encrypt_move_to_next_frame(f)
              IN IF e.rc # "OK" THEN e
                 ELSE IF f.frame_size_left > 0 THEN f
                 ELSE IF g.clip \in DOMAIN Clips THEN g
                 ELSE write_buffer_flush(g, FALSE)

-----------------------------------------------------------------------------
(* The fragment writers: how enc is when frames begin to arrive *)

\* The single nal writer starts again with the first clip, whether it has
\* frames or not
mp4_cenc_encrypt_video_get_fragment_writer ==
    LET e == mp4_cenc_encrypt_init_state
        f == mp4_cenc_encrypt_move_to_next_frame(e)
    IN IF ~ HasFrame(f) THEN [f EXCEPT !.head = BuildFragmentHeader(EmptyInfo)]
       ELSE mp4_cenc_encrypt_video_init_track(
              IF job.writer = "snpf"
              THEN [e EXCEPT !.head = BuildFragmentHeader(
                                        mp4_cenc_encrypt_video_snpf_build_auxiliary_data(e))]
              ELSE f)

mp4_cenc_encrypt_audio_get_fragment_writer ==
    [mp4_cenc_encrypt_move_to_next_frame(mp4_cenc_encrypt_init_state) EXCEPT
        !.head = BuildFragmentHeader(mp4_cenc_encrypt_audio_info(mp4_cenc_encrypt_init_state))]

CencStep ==
    \/ VideoStartFrame \/ VideoPacketSize \/ VideoNalType \/ VideoData
    \/ SnpfStartFrame \/ SnpfClear \/ SnpfEncrypt
    \/ AudioWrite

=============================================================================
