-------------------------- MODULE EncryptedFragment --------------------------
(***************************************************************************)
(* A fragment on its way from the files to the client: the frame writer of *)
(* mp4_fragment.c reads the frames of the clips, decrypted when the files  *)
(* are encrypted, and hands them to the client or to a writer that         *)
(* encrypts them; a muxed segment goes through the cbcs writers.           *)
(***************************************************************************)
EXTENDS CbcsEncrypt

CONSTANT
    Jobs            \* the requests, their files and how much of one may arrive at once

VARIABLES
    fw,             \* the frame writer
    sent,           \* the pieces of memory given to the client's write_tail
    feed            \* what the muxer gave to the cbcs writers

vars == <<job, enc, src, cbcs, fw, sent, feed>>

-----------------------------------------------------------------------------
(* mp4_fragment.c *)

\* A plausible mistake: only the first clip's source is told
mp4_fragment_init_track_BUG(s, c, reuse) ==
    LET n == mp4_cenc_decrypt_init(s, Clips[c])
    IN IF reuse \/ c > 1 THEN n ELSE disable_buffer_reuse(n)

mp4_fragment_init_track(s, c, reuse) ==
    LET n == mp4_cenc_decrypt_init(s, Clips[c])
    IN IF reuse THEN n ELSE disable_buffer_reuse(n)

\* [fw, src] at the next frame, or rc = "OK" when there is none
mp4_fragment_move_to_next_frame(f, s) ==
    LET later == {c \in DOMAIN Clips : c > f.clip /\ Clips[c].frames # <<>>}
        c == Min(later)
    IN IF f.frame \in DOMAIN Clips[f.clip].frames THEN [fw |-> f, src |-> s]
       ELSE IF later = {} THEN [fw |-> [f EXCEPT !.rc = "OK"], src |-> s]
       ELSE [fw |-> [f EXCEPT !.clip = c, !.frame = 1, !.first_time = TRUE],
             src |-> mp4_fragment_init_track(s, c, f.reuse_buffers)]

\* The frame that was moved to is started
StartFrame(m) ==
    LET s == SourceStartFrame(m.src, Clips[m.fw.clip].frames[m.fw.frame].size)
    IN IF m.fw.rc = "OK" THEN m
       ELSE [fw |-> [m.fw EXCEPT !.rc = IF s.rc = "OK" THEN "RUN" ELSE s.rc], src |-> s]

Flush(f) == IF f.pending.size > 0 THEN <<f.pending>> ELSE <<>>

\* What of mp4_fragment_frame_writer_process goes to the client at once, and
\* what is kept because the next piece may follow it in memory
Joins(pending, piece) == pending.size > 0 /\ pending.buf = piece.buf /\ pending.from + pending.size = piece.from

Idle == enc.input = <<>> /\ enc.rc = "OK"

Read ==
    /\ fw.rc = "RUN" /\ ~ fw.frame_done /\ Idle /\ CanRead(src)
    /\ \E s \in {SourceRead(src)} :
         /\ src' = s
         /\ LET ok == s.rc = "OK"
                f == [fw EXCEPT !.processed = TRUE, !.frame_done = s.frame_done]
                bytes == IF ok /\ fw.reuse_buffers THEN BytesOf(s.mem, s.piece) ELSE <<>>
            IN IF ~ ok
               THEN fw' = [fw EXCEPT !.rc = s.rc] /\ UNCHANGED <<enc, sent>>
               ELSE IF fw.reuse_buffers
               THEN /\ enc' = [enc EXCEPT !.input = bytes]
                    /\ fw' = f
                    /\ UNCHANGED sent
               ELSE IF Joins(fw.pending, s.piece)
               THEN /\ fw' = [f EXCEPT !.pending.size = @ + s.piece.size]
                    /\ UNCHANGED <<enc, sent>>
               ELSE /\ sent' = sent \o Flush(fw)
                    /\ fw' = [f EXCEPT !.pending = s.piece]
                    /\ UNCHANGED enc
    /\ UNCHANGED <<job, cbcs, feed>>

NextFrame ==
    /\ fw.rc = "RUN" /\ fw.frame_done /\ Idle
    /\ \E last \in {fw.frame = Len(Clips[fw.clip].frames)} :
         \E m \in {StartFrame(mp4_fragment_move_to_next_frame(
                     [fw EXCEPT !.frame = @ + 1, !.frame_done = FALSE,
                                !.pending = IF last THEN NoPiece ELSE @], src))} :
           /\ sent' = IF last THEN sent \o Flush(fw) ELSE sent
           /\ fw' = m.fw
           /\ src' = m.src
    /\ UNCHANGED <<job, enc, cbcs, feed>>

\* A plausible mistake: the first call of a clip must find data too
Again_BUG ==
    /\ fw.rc = "RUN" /\ ~ fw.frame_done /\ Idle /\ ~ CanRead(src)
    /\ sent' = sent \o Flush(fw)
    /\ fw' = IF fw.pending.size = 0 /\ ~ fw.processed
             THEN [fw EXCEPT !.rc = "BAD_DATA"]
             ELSE [fw EXCEPT !.rc = "AGAIN", !.pending = NoPiece, !.first_time = FALSE]
    /\ UNCHANGED <<job, enc, src, cbcs, feed>>

\* The source has nothing more: the caller must read from the file
Again ==
    /\ fw.rc = "RUN" /\ ~ fw.frame_done /\ Idle /\ ~ CanRead(src)
    /\ sent' = sent \o Flush(fw)
    /\ fw' = IF fw.pending.size = 0 /\ ~ fw.processed /\ ~ fw.first_time
             THEN [fw EXCEPT !.rc = "BAD_DATA"]
             ELSE [fw EXCEPT !.rc = "AGAIN", !.pending = NoPiece, !.first_time = FALSE]
    /\ UNCHANGED <<job, enc, src, cbcs, feed>>

\* The file is read, up to where it ends, and the frame writer called again
FileRead(n) ==
    /\ fw.rc = "AGAIN"
    /\ src' = FileArrives(src, SubSeq(Clips[fw.clip].file, src.offset + 1,
                                      Min({src.offset + n, Len(Clips[fw.clip].file)})))
    /\ fw' = [fw EXCEPT !.rc = "RUN", !.processed = FALSE]
    /\ UNCHANGED <<job, enc, cbcs, sent, feed>>

\* The write callback's error ends the request
WriteFailed ==
    /\ fw.rc = "RUN" /\ enc.rc # "OK"
    /\ fw' = [fw EXCEPT !.rc = enc.rc]
    /\ UNCHANGED <<job, enc, src, cbcs, sent, feed>>

EncryptStep ==
    /\ fw.rc = "RUN"
    /\ CencStep
    /\ UNCHANGED <<job, src, cbcs, fw, sent, feed>>

-----------------------------------------------------------------------------
(* The frame processors of dash, mss and hls *)

\* edash_packager_get_fragment_writer and mss_playready_get_fragment_writer
\* choose the writer; hls with SAMPLE-AES uses the one of cbcs
WriterKind ==
    IF job.protocol = "hls" THEN "cbcs"
    ELSE IF ~ job.encrypt THEN "clear"
    ELSE IF CanPassThrough THEN "passthrough"
    ELSE IF job.tracks[1].kind = "audio" THEN "audio"
    ELSE IF job.single_nalu THEN "snpf"
    ELSE "video"

ChooseWriter ==
    /\ fw.rc = "NEW" /\ job.writer = "none"
    /\ job' = [job EXCEPT !.writer = WriterKind]
    /\ UNCHANGED <<enc, src, cbcs, fw, sent, feed>>

FragmentWriter ==
    CASE job.writer = "clear" -> [mp4_cenc_encrypt_init_state EXCEPT !.head = BuildFragmentHeader(NoAux)]
      [] job.writer = "passthrough" ->
            [mp4_cenc_encrypt_init_state EXCEPT !.head = BuildFragmentHeader(mp4_cenc_passthrough_info)]
      [] job.writer = "audio" -> mp4_cenc_encrypt_audio_get_fragment_writer
      [] OTHER -> mp4_cenc_encrypt_video_get_fragment_writer

\* init_frame_processor: the frames are read into buffers that are used again
\* only when a writer that encrypts copies them
StartWriter ==
    /\ fw.rc = "NEW" /\ job.writer \notin {"none", "cbcs"}
    /\ \E e \in {FragmentWriter}, reuse \in {job.writer \notin {"clear", "passthrough"}} :
         \E m \in {StartFrame(mp4_fragment_move_to_next_frame(
                     [fw EXCEPT !.reuse_buffers = reuse, !.rc = "RUN"],
                     mp4_fragment_init_track(src, 1, reuse)))} :
           /\ enc' = e
           /\ fw' = IF e.rc = "OK" THEN m.fw ELSE [fw EXCEPT !.rc = e.rc]
           /\ src' = IF e.rc = "OK" THEN m.src ELSE src
    /\ UNCHANGED <<job, cbcs, sent, feed>>

StartCbcs ==
    /\ fw.rc = "NEW" /\ job.writer = "cbcs"
    /\ cbcs' = mp4_cbcs_encrypt_get_writers
    /\ fw' = [fw EXCEPT !.rc = IF cbcs'.rc = "OK" THEN "MUX" ELSE cbcs'.rc]
    /\ UNCHANGED <<job, enc, src, sent, feed>>

-----------------------------------------------------------------------------
(* The muxer, as far as the cbcs writers see it: a track's frames come in  *)
(* order, in pieces, and no other track's in the middle of one *)

TrackBytes(t) == job.tracks[t].bytes

\* Where the frames of a track with data start
Starts(t) == job.tracks[t].starts

Feed(t, n) ==
    /\ fw.rc = "MUX" /\ cbcs.rc = "OK" /\ cbcs.input = <<>>
    /\ \A u \in DOMAIN job.tracks \ {t} :
         feed.at[u] = Len(TrackBytes(u)) \/ \E f \in DOMAIN Starts(u) : feed.at[u] = Starts(u)[f]
    /\ \E bytes \in {SubSeq(TrackBytes(t), feed.at[t] + 1,
                            Min({feed.at[t] + n, Len(TrackBytes(t))}))} :
         /\ bytes # <<>>
         /\ cbcs' = [cbcs EXCEPT !.track = t, !.input = bytes]
         /\ feed' = [at |-> [feed.at EXCEPT ![t] = @ + Len(bytes)],
                     order |-> feed.order \o SelectSeq([f \in DOMAIN Starts(t) |-> <<t, f>>],
                       LAMBDA x : Starts(t)[x[2]] \in feed.at[t] .. feed.at[t] + Len(bytes) - 1)]
    /\ UNCHANGED <<job, enc, src, fw, sent>>

CbcsWrite ==
    /\ fw.rc = "MUX"
    /\ CbcsStep
    /\ UNCHANGED <<job, enc, src, fw, sent, feed>>

MuxDone ==
    /\ fw.rc = "MUX"
    /\ \/ cbcs.rc # "OK"
       \/ cbcs.input = <<>> /\ \A t \in DOMAIN job.tracks : feed.at[t] = Len(TrackBytes(t))
    /\ fw' = [fw EXCEPT !.rc = cbcs.rc]
    /\ UNCHANGED <<job, enc, src, cbcs, sent, feed>>

Over == fw.rc \in {"OK", "BAD_DATA", "BAD_REQUEST", "UNEXPECTED"}

Terminated == Over /\ UNCHANGED vars

Init ==
    \E j \in Jobs :
      /\ job = j
      /\ fw = [clip |-> 1, frame |-> 1, first_time |-> TRUE, processed |-> FALSE,
               reuse_buffers |-> FALSE, frame_done |-> FALSE, pending |-> NoPiece, rc |-> "NEW"]
      /\ src = NoSource
      /\ enc = [input |-> <<>>, rc |-> "OK", tail |-> <<>>, head |-> NoHeader]
      /\ cbcs = [input |-> <<>>, rc |-> "OK", tail |-> <<>>]
      /\ sent = <<>>
      /\ feed = [at |-> [t \in DOMAIN j.tracks |-> 0], order |-> <<>>]

Next ==
    \/ ChooseWriter \/ StartWriter \/ StartCbcs
    \/ Read \/ NextFrame \/ Again \/ WriteFailed
    \/ \E n \in job.reads : FileRead(n)
    \/ EncryptStep
    \/ \E t \in DOMAIN job.tracks, n \in job.reads : Feed(t, n)
    \/ CbcsWrite \/ MuxDone
    \/ Terminated

Spec == Init /\ [][Next]_vars

-----------------------------------------------------------------------------
(* What the client can do with the response *)

Fragment == job.protocol # "hls"
Complete == fw.rc = "OK" /\ Fragment
Frames == AllFrames(Clips)
Info == enc.head.info

\* The samples' bytes: the memory the client was given is sent last of all
Samples ==
    IF job.writer \in {"clear", "passthrough"}
    THEN FlattenSeq([i \in DOMAIN sent |-> BytesOf(src.mem, sent[i])])
    ELSE enc.tail

Sample(f) == LET at == SumOf([g \in 1 .. f - 1 |-> Frames[g].size])
             IN SubSeq(Samples, at + 1, at + Frames[f].size)

\* The key stream of a frame of size bytes for its auxiliary data
KeyStream(key, items, subsamples, size) ==
    LET subs == After(items, 2)
        start(i) == SumOf([j \in 1 .. i - 1 |-> subs[j].x + subs[j].y])
        hidden == IF ~ subsamples THEN 1 .. size
                  ELSE UNION {start(i) + subs[i].x + 1 .. start(i) + subs[i].x + subs[i].y : i \in DOMAIN subs}
        rank(i) == Cardinality({j \in hidden : j < i})
    IN [i \in 1 .. size |-> IF i \in hidden
                            THEN <<key, items[1].x, rank(i) \div BlockSize, rank(i) % BlockSize>>
                            ELSE <<>>]

\* The auxiliary data that saiz gives to a frame
SampleAux(f) ==
    LET size(g) == IF Info.default # 0 THEN Info.default ELSE Info.sizes[g]
        at == SumOf([g \in 1 .. f - 1 |-> size(g)])
    IN AuxRange(Info.aux, at, at + size(f))

Decrypted(f) ==
    LET k == KeyStream(job.key, SampleAux(f), Info.subsamples, Frames[f].size)
    IN [i \in 1 .. Frames[f].size |->
          IF k[i] = <<>> THEN Sample(f)[i] ELSE Crypt(Sample(f)[i], k[i])]

\* A player that has the key gets the frames back, with nothing but the
\* sizes in trun, the auxiliary data and saiz: however the reads split nal
\* unit sizes, subsamples and cipher blocks, in which write buffer a piece
\* ends, whether the file was encrypted with another key, and whether the
\* client is sent the memory late.
FramesRestored ==
    Complete =>
      /\ Len(Samples) = SumOf([f \in DOMAIN Frames |-> Frames[f].size])
      /\ \A f \in DOMAIN Frames :
           IF job.encrypt THEN Decrypted(f) = Frames[f].clear ELSE Sample(f) = Frames[f].clear

-----------------------------------------------------------------------------

Pieces == enc.head.pieces
Written(from, to) == SumOf([i \in 1 .. to - from + 1 |-> Pieces[from + i - 1].written])
Index(name) == CHOOSE i \in DOMAIN Pieces : Pieces[i].name = name

\* Every atom is as long as it says, computed before it was written: the
\* containers end where their last atom does, mdat with the last sample and
\* the response with mdat, whatever the writer found out about subsamples.
AtomsNest ==
    Complete =>
      LET mdat == Len(Pieces) IN
      /\ \A i \in DOMAIN Pieces :
           Pieces[i].declared =
             CASE Pieces[i].name = "mdat" -> Pieces[i].written + Len(Samples)
               [] Pieces[i].name \in {"moof", "traf"} -> Written(i, mdat - 1)
               [] OTHER -> Pieces[i].written
      /\ enc.head.total = Written(1, mdat) + Len(Samples)
      /\ enc.head.first_frame_offset = Written(Index("moof"), mdat)

\* saio points to the auxiliary data inside senc or piff, and saiz divides
\* exactly that data, into as many samples as trun has.
AuxLocated ==
    Complete /\ job.encrypt /\ Frames # <<>> =>
      LET box == IF job.protocol = "dash" THEN Index("senc") ELSE Index("piff") IN
      /\ enc.head.aux_offset = Written(Index("moof"), box) - AuxSize(Info.aux)
      /\ Info.count = Len(Frames)
      /\ AuxSize(Info.aux) = IF Info.default # 0 THEN Info.default * Info.count ELSE SumOf(Info.sizes)

\* The ivs of later fragments: they start where the next frame of the last
\* clip is, in a clip that starts after all frames of those before it.
NextIv ==
    LET c == Len(Clips)
    IN FirstIv(Clips[c].first_frame_index + Len(Clips[c].frames), Clips[c].clip_start_time)

\* No fragment goes on with an iv that the next fragment starts with: the iv
\* counts frames through the clips of a fragment, but is computed anew from
\* the clip's start time for the next one ("assuming there won't be more
\* than 60 fps").
IvsNotReused ==
    Complete /\ job.encrypt /\ job.writer # "passthrough" =>
      \A i \in DOMAIN Info.aux : Info.aux[i].t = "iv" => Info.aux[i].x < NextIv

\* What must be encrypted is, and only that: of a slice everything after the
\* nal unit's type, of an audio frame everything, and no byte of the key
\* stream is used twice, which would give both clear bytes away, in the
\* fragment or in the next one.
Protected ==
    /\ IvsNotReused
    /\ Complete /\ job.encrypt =>
        /\ \A f \in DOMAIN Frames : Frames[f].slices = {i \in DOMAIN Sample(f) : Sample(f)[i].ks # <<>>}
        /\ \A i, j \in DOMAIN Samples :
             i # j /\ Samples[i].ks # <<>> => Samples[i].ks # Samples[j].ks

\* A request fails when a file ends early, its packet sizes are wrong or its
\* codec cannot be encrypted; it never fails otherwise, and a file that ends
\* early is never served as complete.
OnlyBadFilesFail == Over => (fw.rc = job.outcome)

\* A player can follow the atoms to the auxiliary data and the samples and
\* gets the frames back, of every file that can be served.
Decryptable == OnlyBadFilesFail /\ AtomsNest /\ AuxLocated /\ FramesRestored

-----------------------------------------------------------------------------

\* The bytes a muxed segment must have for a frame: of every slice, the
\* blocks at the multiples of the period after its header, chained to the iv
\* and to each other; of an audio frame, all blocks.
CbcsFrame(t, f) ==
    LET frame == SelectSeq(AllFrames(job.tracks[t].clips), LAMBDA x : x.size > 0)[f]
        period == IF job.tracks[t].kind = "video" THEN BlockPeriod * BlockSize ELSE BlockSize
        zone(i) == CHOOSE z \in frame.zones : i \in z.from .. z.to
        inZone(i) == \E z \in frame.zones : i \in z.from .. z.to
        block(i) == ((i - zone(i).from) \div period) * period + zone(i).from
        hidden(i) == /\ inZone(i)
                     /\ (i - zone(i).from) % period < BlockSize
                     /\ block(i) + BlockSize - 1 <= zone(i).to
        link(i) == IF block(i) = zone(i).from THEN job.iv ELSE frame.clear[block(i) - period].b
    IN [i \in 1 .. frame.size |->
          IF hidden(i) THEN Crypt(frame.clear[i], <<job.key, link(i), (i - zone(i).from) % period>>)
          ELSE frame.clear[i]]

\* A muxed segment that ended well holds every frame, encrypted in the cbcs
\* pattern, in the order the muxer gave them, and nothing stays behind in the
\* buffer the tracks share.
CbcsPattern ==
    ~ Fragment /\ fw.rc = "OK" =>
      cbcs.tail = FlattenSeq([i \in DOMAIN feed.order |-> CbcsFrame(feed.order[i][1], feed.order[i][2])])
=============================================================================
