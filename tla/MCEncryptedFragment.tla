------------------------- MODULE MCEncryptedFragment -------------------------
(* Files and requests for the encrypted fragments. *)
EXTENDS EncryptedFragment

\* A nal unit: the bytes after its size, and the last digit of its type
Unit(size, header) == [size |-> size, header |-> header]

Body(g, n, u) == [j \in 1 .. u.size |-> Clear(10000 * g + 1000 * n + 10 * j + (IF j = 1 THEN u.header ELSE 0))]

\* A frame of video: stated(n, size) is what the file says the size of a unit is
VideoFrame(g, units, length, stated(_, _)) ==
    LET start(n) == SumOf([m \in 1 .. n - 1 |-> length + units[m].size])
        slices == {n \in DOMAIN units : units[n].header > 0}
        bytes == FlattenSeq([n \in DOMAIN units |->
                   SizeDigits(stated(n, units[n].size), length) \o Body(g, n, units[n])])
    IN [size |-> Len(bytes), clear |-> bytes, group |-> g,
        subs |-> [n \in DOMAIN units |->
                    IF n \in slices THEN Subsample(length + 1, units[n].size - 1)
                    ELSE Subsample(length + units[n].size, 0)],
        slices |-> UNION {start(n) + length + 2 .. start(n) + length + units[n].size : n \in slices},
        zones |-> {[from |-> start(n) + length + 2 + units[n].header,
                    to |-> start(n) + length + units[n].size] : n \in slices}]

AudioFrame(g, size) ==
    [size |-> size, clear |-> Body(g, 0, Unit(size, 0)), group |-> g, subs |-> <<>>,
     slices |-> 1 .. size, zones |-> {[from |-> 1, to |-> size]}]

FrameAux(frame, subsamples) ==
    IF subsamples THEN <<Iv(100 + frame.group), Count(Len(frame.subs))>> \o frame.subs
    ELSE <<Iv(100 + frame.group)>>

CryptFrame(frame, k) ==
    [i \in 1 .. frame.size |-> IF k[i] = <<>> THEN frame.clear[i] ELSE Crypt(frame.clear[i], k[i])]

Stored(frame, key, aux, video) ==
    IF key = 0 THEN frame.clear ELSE CryptFrame(frame, KeyStream(key, aux, video, frame.size))

\* The auxiliary data of a file whose earlier frames are like its first one
AllAux(aux, first) == [f \in 1 .. (IF aux = <<>> THEN 0 ELSE first) |-> aux[1]] \o aux

ClipOfBytes(bytes, all, video, frames, length, key, uniform, first, start, missing) ==
    [frames |-> frames, file |-> First(bytes, Len(bytes) - missing), nal_length |-> length, nal_header |-> 1,
     supported |-> TRUE, key |-> key, subsamples |-> video,
     senc |-> FlattenSeq(all), saiz |-> [f \in DOMAIN all |-> AuxSize(all[f])],
     default |-> IF uniform THEN AuxSize(all[1]) ELSE 0,
     first_frame_index |-> first, clip_start_time |-> start, first_frame_time_offset |-> 0,
     pts_delay |-> 1, initial_pts_delay |-> 1]

ClipOfAux(aux, video, frames, length, key, uniform, first, start, missing) ==
    ClipOfBytes(FlattenSeq([f \in DOMAIN frames |-> Stored(frames[f], key, aux[f], video)]),
                AllAux(aux, first), video, frames, length, key, uniform, first, start, missing)

\* A clip: its frames, whether saiz of an encrypted file has a default, the
\* index of the first frame and what is missing at the end of the file.
ClipOf(video, frames, length, key, uniform, first, start, missing) ==
    ClipOfAux([f \in DOMAIN frames |-> FrameAux(frames[f], video)],
              video, frames, length, key, uniform, first, start, missing)

Right(n, size) == size
Video(g, units, length) == VideoFrame(g, units, length, Right)

ThreeUnits == <<Unit(2, 0), Unit(6, 1), Unit(1, 1)>>
OneSlice == <<Unit(7, 2)>>
TwoUnits == <<Unit(1, 0), Unit(4, 1)>>

\* Two clips with nal unit sizes of 1 and 2 bytes, in files that are clear or
\* encrypted with the given keys
Movie(key1, key2, uniform) ==
    << ClipOf(TRUE, <<Video(1, ThreeUnits, 1), Video(2, OneSlice, 1)>>, 1, key1, FALSE, 1, 10, 0),
       ClipOf(TRUE, <<Video(3, OneSlice, 2)>>, 2, key2, uniform, 0, 60, 0) >>

\* Frames of one slice each
Slices(key1, key2, uniform) ==
    << ClipOf(TRUE, <<Video(1, OneSlice, 1), Video(2, <<Unit(3, 1)>>, 1)>>, 1, key1, uniform, 1, 0, 0),
       ClipOf(TRUE, <<>>, 1, 0, FALSE, 3, 50, 0),
       ClipOf(TRUE, <<Video(3, OneSlice, 2)>>, 2, key2, uniform, 0, 100, 0) >>

\* Audio, with a clip without frames in between
Sound(key) ==
    << ClipOf(FALSE, <<AudioFrame(1, 3), AudioFrame(2, 5)>>, 1, key, TRUE, 1, 0, 0),
       ClipOf(FALSE, <<>>, 1, 0, FALSE, 3, 50, 0),
       ClipOf(FALSE, <<AudioFrame(3, 1)>>, 1, key, TRUE, 0, 100, 0) >>

TrackOf(kind, clips, frames) ==
    [kind |-> kind, clips |-> clips,
     bytes |-> FlattenSeq([f \in DOMAIN frames |-> frames[f].clear]),
     starts |-> [f \in DOMAIN frames |-> SumOf([g \in 1 .. f - 1 |-> frames[g].size])]]

Track(kind, clips) == TrackOf(kind, clips, SelectSeq(AllFrames(clips), LAMBDA x : x.size > 0))

Job(protocol, encrypt, tracks, outcome) ==
    [protocol |-> protocol, encrypt |-> encrypt, clear_lead |-> FALSE, single_nalu |-> FALSE,
     writer |-> "none", version |-> 1, origin |-> 0, look_ahead |-> 0, key |-> 7, iv |-> 5,
     tracks |-> tracks, outcome |-> outcome, reads |-> IF encrypt THEN {1, 2, 5, 100} ELSE {3}]

ClearFiles(protocol) ==
    LET movie == <<Track("video", Movie(0, 0, FALSE))>>
        sound == <<Track("audio", Sound(0))>>
        job1 == Job(protocol, TRUE, movie, "OK")
    IN {job1,
        [job1 EXCEPT !.tracks = <<Track("video", Slices(0, 0, FALSE))>>],
        [job1 EXCEPT !.tracks = <<Track("video", Slices(0, 0, FALSE))>>, !.single_nalu = TRUE],
        [job1 EXCEPT !.tracks = sound],
        [job1 EXCEPT !.tracks = <<Track("video", <<ClipOf(TRUE,
            <<Video(1, TwoUnits, 1), Video(2, TwoUnits, 1), Video(3, OneSlice, 1)>>, 1, 0, FALSE, 0, 0, 0)>>)>>],
        [job1 EXCEPT !.tracks = <<Track("video", Tail(Movie(0, 0, FALSE)))>>, !.version = 2],
        Job(protocol, FALSE, <<Track("video", Tail(Slices(0, 0, FALSE)))>>, "OK"),
        [Job(protocol, FALSE, <<Track("audio", Tail(Sound(0)))>>, "OK") EXCEPT
            !.look_ahead = 2, !.clear_lead = protocol = "dash"]}

\* Times behind the width of a field, and a segment without frames
Odd ==
    {[Job("dash", e, <<Track("audio", <<[Sound(0)[3] EXCEPT !.first_frame_time_offset = 6000]>>)>>, "OK")
        EXCEPT !.version = 0] : e \in BOOLEAN}
    \cup {Job(p, TRUE, <<Track("video", <<Slices(0, 0, FALSE)[2]>>)>>, "OK") : p \in {"dash", "mss"}}

\* Encrypted files: served clear, encrypted anew, passed through, and those
\* that cannot be because their auxiliary data differs
EncryptedFiles ==
    {Job("dash", FALSE, <<Track("video", Movie(3, 3, FALSE))>>, "OK"),
     Job("dash", FALSE, <<Track("video", Movie(3, 0, FALSE))>>, "OK"),
     Job("mss", FALSE, <<Track("audio", Sound(3))>>, "OK"),
     Job("dash", TRUE, <<Track("video", Movie(3, 0, FALSE))>>, "OK"),
     Job("mss", TRUE, <<Track("audio", <<Sound(3)[1]>>)>>, "OK"),
     Job("dash", TRUE, <<Track("video", Movie(7, 7, TRUE))>>, "OK"),
     Job("dash", TRUE, <<Track("video", Movie(7, 7, FALSE))>>, "OK"),
     Job("mss", TRUE, <<Track("video", Movie(7, 7, FALSE))>>, "OK"),
     Job("mss", TRUE, <<Track("audio", <<Sound(7)[1], Sound(7)[3]>>)>>, "OK"),
     Job("dash", TRUE, <<Track("video", <<Slices(7, 7, TRUE)[1], Slices(7, 7, TRUE)[3]>>)>>, "OK")}

\* Without a writer that copies, the pieces stay apart in memory: one size of
\* the reads at a time
EachSize(jobs) == {[j EXCEPT !.reads = {n}] : j \in jobs, n \in 1 .. 6}

\* Files that end early, sizes that cannot be right, other codecs
Shorter(clips, missing) == [clips EXCEPT ![Len(clips)].file = First(@, Len(@) - missing)]
WrongSize(stated(_, _)) ==
    <<Track("video", <<ClipOf(TRUE, <<VideoFrame(1, TwoUnits, 1, stated)>>, 1, 0, FALSE, 0, 0, 0)>>)>>
Zero(n, size) == IF n = 2 THEN 0 ELSE size
Larger(n, size) == IF n = 2 THEN size + 1 ELSE size
LeavesOne(n, size) == IF n = 2 THEN size - 1 ELSE size

BadFiles ==
    {Job("dash", e, <<Track("video", Shorter(Tail(Movie(0, 0, FALSE)), 2))>>, "BAD_DATA") : e \in BOOLEAN}
    \cup {Job("dash", FALSE, <<Track("video", Shorter(Movie(3, 3, FALSE), 9))>>, "BAD_DATA")}
    \cup {Job("mss", TRUE, tracks, "BAD_DATA") :
            tracks \in {WrongSize(Zero), WrongSize(Larger), WrongSize(LeavesOne),
                        <<Track("video", <<[Movie(0, 0, FALSE)[2] EXCEPT !.nal_length = 5]>>)>>}}
    \cup {Job("dash", TRUE, <<Track("video", <<[Movie(0, 0, FALSE)[2] EXCEPT !.supported = FALSE]>>)>>, "BAD_REQUEST")}

\* Muxed segments: slices around the sizes that matter, read through more
\* than one header buffer, followed by one that ends with a block or not
Muxed(units1, units2, sound) ==
    <<Track("video", << ClipOf(TRUE, <<Video(1, units1, 1), Video(2, <<>>, 1)>>, 1, 0, FALSE, 0, 0, 0),
                        ClipOf(TRUE, <<Video(3, units2, 2)>>, 2, 0, FALSE, 0, 50, 0) >>),
      Track("audio", sound)>>

\* Nal units of HEVC have a header of two bytes
Hevc(clips) == [c \in DOMAIN clips |-> [clips[c] EXCEPT !.nal_header = 2]]

HevcMuxed(units1, units2, sound) ==
    [Muxed(units1, units2, sound) EXCEPT ![1].clips = Hevc(@)]

HevcTooSmall(units) ==
    <<Track("video", Hevc(<<ClipOf(TRUE, <<Video(1, units, 1)>>, 1, 0, FALSE, 0, 0, 0)>>))>>

\* Units up to two periods long.  One that is copied whole as a slice header
\* ends a segment badly: see the README
Units == {u \in {Unit(size, header) : size \in 1 .. 11, header \in 0 .. 3} : u.header < u.size}
Lasts == {u \in Units : u.size > 1 /\ ~ (u.size = 4 /\ u.header \in {2, 3})}

CbcsJobs ==
    {Job("hls", TRUE, Muxed(u, <<v>>, Tail(Sound(0))), "OK") :
        u \in {<<Unit(1, 0), Unit(4, 1)>>, <<Unit(3, 1), Unit(12, 3)>>}, v \in Lasts}
    \cup {Job("hls", TRUE, Muxed(<<u, Unit(3, 1)>>, <<Unit(3, 0), Unit(9, 2)>>, Tail(Sound(0))), "OK") : u \in Units}
    \cup {Job("hls", TRUE, Muxed(<<Unit(11, 1)>>, <<Unit(4, 1)>>, <<Sound(0)[2]>>), "OK"),
          Job("hls", TRUE, <<Track("audio", Sound(0))>>, "OK"),
          Job("hls", TRUE, HevcMuxed(<<Unit(2, 0), Unit(9, 2)>>, <<Unit(7, 3)>>, Tail(Sound(0))), "OK"),
          Job("hls", TRUE, HevcTooSmall(<<Unit(1, 0)>>), "BAD_DATA"),
          Job("hls", TRUE, HevcTooSmall(<<Unit(4, 1), Unit(1, 0)>>), "BAD_DATA"),
          [Job("hls", TRUE, WrongSize(Larger), "BAD_DATA") EXCEPT !.key = 3],
          Job("hls", TRUE, WrongSize(Zero), "BAD_DATA"),
          Job("hls", TRUE, <<Track("video", <<[Movie(0, 0, FALSE)[2] EXCEPT !.nal_length = 5]>>)>>, "BAD_DATA"),
          Job("hls", TRUE, <<Track("video", <<[Movie(0, 0, FALSE)[2] EXCEPT !.supported = FALSE]>>)>>, "BAD_REQUEST")}

TheJobs == ClearFiles("dash") \cup ClearFiles("mss") \cup Odd \cup EachSize(EncryptedFiles) \cup BadFiles \cup CbcsJobs
=============================================================================
