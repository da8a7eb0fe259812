------------------------------ MODULE MCMp4Muxer ------------------------------
(***************************************************************************)
(* The segments that TLC muxes.  A file is given by the sequence of its    *)
(* frames, each the number of its stream and its size, one after the       *)
(* other; the frames of a stream have one duration.                        *)
(***************************************************************************)
EXTENDS Mp4Muxer

FileSize(file) ==
    LET sum[i \in 0 .. Len(file)] == IF i = 0 THEN 0 ELSE sum[i - 1] + file[i][2]
    IN sum[Len(file)]

\* The frames of stream s in a file
PartIn(file, source, s, duration) ==
    LET frame(i) == [offset |-> FileSize(SubSeq(file, 1, i - 1)), size |-> file[i][2],
                     duration |-> duration]
        upTo[i \in 0 .. Len(file)] ==
            IF i = 0 THEN <<>>
            ELSE IF file[i][1] = s THEN Append(upTo[i - 1], frame(i)) ELSE upTo[i - 1]
    IN [source |-> source, frames |-> upTo[Len(file)]]

TrackIn(file, source, s, duration) ==
    [start |-> 0, parts |-> <<PartIn(file, source, s, duration)>>]

\* Both streams in one file
OneClip(file, source, durations) ==
    <<TrackIn(file, source, 1, durations[1]), TrackIn(file, source, 2, durations[2])>>

\* Files of n frames
Files(n, sizes) == [1 .. n -> (1 .. 2) \X sizes]

InputOf(clips, lengths) ==
    [media_types |-> <<0, 1>>, clips |-> clips, lengths |-> lengths]

\* One clip of one file, the whole file or what is left of it
OneFile(n, durations, cut) ==
    {InputOf(<<OneClip(f, 1, d)>>, <<IF l < FileSize(f) THEN l ELSE FileSize(f)>>) :
        f \in Files(n, {1, 7}), d \in durations, l \in cut}

\* Each stream in its own file
Separate ==
    {InputOf(<<<<TrackIn(f, 1, 1, 1), TrackIn(g, 2, 2, 3)>>>>,
             <<FileSize(f), FileSize(g)>>) :
        f \in Files(3, {1, 7}), g \in Files(2, {1, 7})}

\* A track that goes on in a second file, if that has frames of it
InTwoParts(f, g, s) ==
    [start |-> 0, parts |-> SelectSeq(<<PartIn(f, 1, s, 1), PartIn(g, 2, s, 1)>>,
                                      LAMBDA p : p.source = 1 \/ p.frames # <<>>)]

\* Two clips of different files, and two parts of one clip
Sequenced ==
    UNION {{InputOf(<<OneClip(f, 1, <<1, 1>>), OneClip(g, 2, <<1, 1>>)>>,
                    <<FileSize(f), FileSize(g)>>),
            InputOf(<<<<InTwoParts(f, g, 1), InTwoParts(f, g, 2)>>>>,
                    <<FileSize(f), FileSize(g)>>)} :
        f \in Files(2, {1, 7}), g \in Files(2, {1, 7})}

ConditionOf(writer, aio, limit) ==
    [per_stream_writer |-> writer = "per stream", reuse_buffers |-> writer # "plain",
     aio |-> aio, limit |-> limit]

Plain == ConditionOf("plain", TRUE, 0)
Conditions ==
    {ConditionOf(w, aio, l) : w \in {"plain", "encrypted", "per stream"}, aio \in BOOLEAN,
                              l \in {0, 1, 5}}

Whole == 100    \* longer than any file

All == {[inputs |-> OneFile(4, {<<1, 1>>, <<1, 3>>, <<3, 1>>}, {Whole}), conditions |-> {Plain}],
        [inputs |-> OneFile(3, {<<1, 1>>}, {3, 11, Whole}), conditions |-> Conditions],
        [inputs |-> Separate \cup Sequenced,
         conditions |-> {Plain, ConditionOf("per stream", TRUE, 0)}]}

\* A file that two clips use, in which the read for a frame starts at the hint of another
\* frame and is cut at a buffer between the two (for BufferSize = 16)
OneFileTwice ==
    LET track(start, offsets) ==
            [start |-> start,
             parts |-> <<[source |-> 1,
                          frames |-> [i \in DOMAIN offsets |->
                                        [offset |-> offsets[i], size |-> 1, duration |-> 1]]]>>]
    IN {[inputs |-> {InputOf(<<<<track(0, <<0, 30>>), track(0, <<31, 60>>)>>,
                               <<track(0, <<32>>), track(5, <<29>>)>>>>, <<80>>)},
         conditions |-> {Plain}]}

=============================================================================
