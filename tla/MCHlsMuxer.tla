------------------------------ MODULE MCHlsMuxer ------------------------------
(* Presentations for HlsMuxer: short videos and sounds whose frames are smaller than,  *)
(* as large as and larger than a packet and the audio buffer.                          *)
EXTENDS HlsMuxer

Unit(size) == [size |-> size, aud |-> FALSE]
Delimiter == [size |-> 1, aud |-> TRUE]

Video(nal_length, key, nals, duration, delay) ==
    [size |-> FoldLeft(LAMBDA x, u : x + nal_length + u.size, 0, nals),
     duration |-> duration, pts_delay |-> delay, key |-> key, nals |-> nals]

Audio(size, duration) ==
    [size |-> size, duration |-> duration, pts_delay |-> 0, key |-> TRUE, nals |-> <<>>]

Track(start, frames) == [start |-> start, frames |-> frames]

\* The frames of a track whose times are in from .. to - 1, as a track of a segment
RECURSIVE Skip(_, _)
Skip(track, from) ==
    IF track.frames = <<>> \/ track.start >= from THEN track
    ELSE Skip(Track(track.start + Head(track.frames).duration, Tail(track.frames)), from)

Take(track, to) ==
    LET rest == Skip(track, to).frames
    IN Track(track.start, SubSeq(track.frames, 1, Len(track.frames) - Len(rest)))

AsInput(track) == [start |-> track.start, parts |-> <<track.frames>>]

\* One clip that is cut at ends
Cut(kinds, aac, nal_length, tracks, ends) ==
    LET from(k) == IF k = 1 THEN 0 ELSE ends[k - 1]
        part(k, t) == Take(Skip(t, from(k)), ends[k])
        video == CHOOSE s \in DOMAIN kinds : kinds[s] = "video" \/ "video" \notin ToSet(kinds)
    IN [kinds |-> kinds, aac |-> aac, nal_length |-> nal_length, ends |-> ends,
        whole |-> << [s \in DOMAIN tracks |-> AsInput(tracks[s])] >>,
        segments |-> [k \in DOMAIN ends |->
                        << [s \in DOMAIN tracks |-> AsInput(part(k, tracks[s]))] >>],
        firsts |-> [k \in DOMAIN ends |-> Len(Take(tracks[video], from(k)).frames)],
        use_discontinuity |-> FALSE, truncated |-> FALSE]

\* Videos of two segments, with key frames at their starts
Videos(n) ==
    { << Video(n, TRUE, <<Unit(a)>>, 2, 0), Video(n, FALSE, <<Unit(3)>>, 2, 2),
         Video(n, FALSE, <<Delimiter, Unit(b), Unit(2)>>, 2, 0),
         Video(n, TRUE, <<Unit(4), Unit(1)>>, 2, 0), Video(n, FALSE, <<Unit(b)>>, 2, 1) >> :
        a \in {1, 8}, b \in {5, 10} }

Sounds == { << Audio(a, 1), Audio(b, 1), Audio(a, 2), Audio(b, 1), Audio(b, 2), Audio(a, 1) >> :
              a \in {2, 5, 22}, b \in {3, 9} }

\* Frames of which several begin in a packet
Small == [i \in 1 .. 10 |-> Audio(2, 1)]

Clips2 ==
    << << [start |-> 0, parts |-> << <<>>, <<Video(2, TRUE, <<Unit(6)>>, 2, 0)>> >>],
          [start |-> 0, parts |-> << <<Audio(4, 1)>>, <<Audio(7, 1)>> >>] >>,
       << [start |-> 4, parts |-> << <<Video(2, TRUE, <<Unit(3)>>, 2, 0)>> >>],
          [start |-> 3, parts |-> << <<Audio(4, 1), Audio(5, 1)>> >>] >> >>

MultiClip(discontinuity) ==
    [kinds |-> <<"video", "audio">>, aac |-> TRUE, nal_length |-> 2, ends |-> <<>>, whole |-> <<>>,
     segments |-> <<Clips2>>, firsts |-> <<0>>, use_discontinuity |-> discontinuity,
     truncated |-> FALSE]

AllPresentations ==
    { Cut(<<"video">>, TRUE, 2, <<Track(0, v)>>, <<6, 10>>) : v \in Videos(2) }
      \cup { Cut(<<"video">>, TRUE, 1, <<Track(0, v)>>, <<6, 10>>) : v \in Videos(1) }
      \cup { Cut(<<"video", "audio">>, TRUE, 2, <<Track(0, v), Track(1, a)>>, <<6, 10>>) :
               v \in Videos(2), a \in Sounds }
      \cup { Cut(<<"audio">>, TRUE, 2, <<Track(0, a)>>, <<4, 10>>) : a \in Sounds }
      \cup { Cut(<<"audio">>, TRUE, 2, <<Track(0, Small)>>, <<9, 10>>) }
      \cup { Cut(<<"audio", "video">>, FALSE, 2,
                 << Track(0, [i \in 1 .. 5 |-> Audio(9, 2)]), Track(0, v) >>, <<6, 10>>) :
               v \in Videos(2) }
      \cup { MultiClip(FALSE),
             [Cut(<<"video">>, TRUE, 2, <<Track(0, CHOOSE v \in Videos(2) : TRUE)>>, <<6, 10>>)
                EXCEPT !.truncated = TRUE] }

AllConfs == { [interleave |-> i, align |-> a, id3 |-> d] : i \in BOOLEAN, a \in BOOLEAN, d \in {0, 3} }
=============================================================================
